---------------------------- MODULE Spec2Model ----------------------------
(***************************************************************************)
(* A model of the files HTTP frontend of cozy-stack (web/files/files.go)   *)
(* and of the part of the vfs engine it drives.  The handlers are          *)
(* translated from web/files/files.go; the vfs engine, the document store  *)
(* and the blob store are not part of the sources at hand and are modelled *)
(* from the specification of the engine (sections 4 and 5).                *)
(*                                                                         *)
(* A request is a small state machine: each step is one call of the        *)
(* handler into the engine (one access to the document store or the blob   *)
(* store) together with the handler's local computation that follows it.   *)
(***************************************************************************)
EXTENDS Integers, Sequences, FiniteSets, TLC

(***************************************************************************)
(* Bounds of the model.                                                    *)
(***************************************************************************)
\* the longest request body, in bytes
MaxLen == 2

\* the requests of one behaviour: each slot handles one request
Reqs == {"r1", "r2"}
\* the documents and blobs a behaviour can hold: the initial one, and one
\* more for each request
MaxDocs == Cardinality(Reqs) + 1
\* the byte values a body is made of
Bytes == {0, 1}
\* the legal leaf names used by the requests
Names == {"a", "b"}
\* the Name query parameter: a legal name, or the empty (illegal) one
NameParams == Names \cup {""}

RootDirID == "io.cozy.files.root-dir"
TrashDirID == "io.cozy.files.trash-dir"
\* the dir-id path parameter: the root, or the id of no directory
DirParams == {RootDirID, "no-such-dir"}

\* the identifiers the document store and the blob store can hand out
DocID(n) == "doc" \o ToString(n)
BlobKey(n) == "blob" \o ToString(n)
DocIDs == {DocID(n) : n \in 1..MaxDocs}
BlobKeys == {BlobKey(n) : n \in 1..MaxDocs}

(***************************************************************************)
(* Errors.  An error value is the Go error's dynamic type (cls), its       *)
(* identity (name) and, for a *jsonapi.Error, the source parameter and the *)
(* error it was built from.                                                *)
(***************************************************************************)
GoError(cls, name) == [cls |-> cls, name |-> name, src |-> "", cause |-> ""]
Nil == GoError("nil", "")

ErrDocTypeInvalid == GoError("files", "ErrDocTypeInvalid")
ErrExist == GoError("os", "ErrExist")
ErrNotExist == GoError("os", "ErrNotExist")
ErrConflict == GoError("vfs", "ErrConflict")
ErrParentDoesNotExist == GoError("vfs", "ErrParentDoesNotExist")
ErrForbiddenDocMove == GoError("vfs", "ErrForbiddenDocMove")
ErrIllegalFilename == GoError("vfs", "ErrIllegalFilename")
ErrIllegalTime == GoError("vfs", "ErrIllegalTime")
ErrInvalidHash == GoError("vfs", "ErrInvalidHash")
ErrContentLengthMismatch == GoError("vfs", "ErrContentLengthMismatch")
ErrFileInTrash == GoError("vfs", "ErrFileInTrash")
ErrNonAbsolutePath == GoError("vfs", "ErrNonAbsolutePath")
ErrDirNotEmpty == GoError("vfs", "ErrDirNotEmpty")
\* the request body could not be read to its end (the client went away)
ErrUnexpectedEOF == GoError("io", "ErrUnexpectedEOF")
\* the blob store failed to take a write
ErrBlobWrite == GoError("io", "ErrBlobWrite")
CouchError == GoError("couchdb", "Error")

\* a *jsonapi.Error built by the constructor `name`
JSONAPIError(name, src, err) ==
    [cls |-> "jsonapi", name |-> name, src |-> src, cause |-> err.name]

IsExist(err) == err = ErrExist
IsNotExist(err) == err = ErrNotExist

\* wrapVfsError without its first two tests on the os errors and ErrConflict
wrapVfsErrorNoConflict(err) ==
    IF err.cls = "jsonapi" THEN err
    ELSE IF err.cls = "couchdb" THEN err
    ELSE CASE err = ErrInvalidHash -> JSONAPIError("PreconditionFailed", "Content-MD5", err)
           [] err = ErrContentLengthMismatch ->
                  JSONAPIError("PreconditionFailed", "Content-Length", err)
           [] err = ErrIllegalFilename -> JSONAPIError("InvalidParameter", "name", err)
           [] OTHER -> JSONAPIError("InternalServerError", "", err)

\* wrapVfsError without the case of vfs.ErrForbiddenDocMove
wrapVfsErrorNoMove(err) ==
    IF err.cls = "jsonapi" THEN err
    ELSE IF err.cls = "couchdb" THEN err
    ELSE IF IsExist(err) \/ err = ErrConflict THEN JSONAPIError("Conflict", "", err)
    ELSE IF IsNotExist(err) THEN JSONAPIError("NotFound", "", err)
    ELSE CASE err = ErrParentDoesNotExist -> JSONAPIError("NotFound", "", err)
           [] err = ErrInvalidHash -> JSONAPIError("PreconditionFailed", "Content-MD5", err)
           [] err = ErrContentLengthMismatch ->
                  JSONAPIError("PreconditionFailed", "Content-Length", err)
           [] err = ErrIllegalFilename -> JSONAPIError("InvalidParameter", "name", err)
           [] err = ErrFileInTrash -> JSONAPIError("BadRequest", "", err)
           [] OTHER -> JSONAPIError("InternalServerError", "", err)

wrapVfsError(err) ==
    IF err.cls = "jsonapi" THEN err
    ELSE IF err.cls = "couchdb" THEN err
    ELSE IF IsExist(err) \/ err = ErrConflict THEN JSONAPIError("Conflict", "", err)
    ELSE IF IsNotExist(err) THEN JSONAPIError("NotFound", "", err)
    ELSE CASE err = ErrDocTypeInvalid -> JSONAPIError("InvalidAttribute", "type", err)
           [] err = ErrParentDoesNotExist -> JSONAPIError("NotFound", "", err)
           [] err = ErrForbiddenDocMove -> JSONAPIError("PreconditionFailed", "dir-id", err)
           [] err = ErrIllegalFilename -> JSONAPIError("InvalidParameter", "name", err)
           [] err = ErrIllegalTime -> JSONAPIError("InvalidParameter", "UpdatedAt", err)
           [] err = ErrInvalidHash -> JSONAPIError("PreconditionFailed", "Content-MD5", err)
           [] err = ErrContentLengthMismatch ->
                  JSONAPIError("PreconditionFailed", "Content-Length", err)
           [] err = ErrFileInTrash -> JSONAPIError("BadRequest", "", err)
           [] err = ErrNonAbsolutePath -> JSONAPIError("BadRequest", "", err)
           [] err = ErrDirNotEmpty -> JSONAPIError("BadRequest", "", err)
           [] OTHER -> JSONAPIError("InternalServerError", "", err)

(***************************************************************************)
(* Request headers and their parsers.                                      *)
(***************************************************************************)
\* a Content-Length header is a string, here a sequence of characters
DigitChars == <<"0", "1", "2", "3", "4", "5", "6", "7", "8", "9">>
IsDigit(c) == \E i \in 1..Len(DigitChars) : DigitChars[i] = c
DigitVal(c) == (CHOOSE i \in 1..Len(DigitChars) : DigitChars[i] = c) - 1

RECURSIVE ParseDigits(_, _)
\* strconv's digit loop: the value of the digits of s after acc, or -1
ParseDigits(s, acc) ==
    IF s = <<>> THEN acc
    ELSE IF ~IsDigit(Head(s)) THEN -1
    ELSE ParseDigits(Tail(s), acc * 10 + DigitVal(Head(s)))

\* strconv.ParseInt(s, 10, 64) on the short strings of the model
ParseInt(s) ==
    IF s = <<>> THEN [ok |-> FALSE, val |-> 0]
    ELSE LET neg == Head(s) = "-"
             signed == Head(s) = "-" \/ Head(s) = "+"
             digits == IF signed THEN Tail(s) ELSE s
             n == ParseDigits(digits, 0)
         IN IF digits = <<>> \/ n < 0 THEN [ok |-> FALSE, val |-> 0]
            ELSE [ok |-> TRUE, val |-> IF neg THEN 0 - n ELSE n]

parseContentLength(contentLength) ==
    IF contentLength = <<>> THEN [size |-> -1, err |-> Nil]
    ELSE LET p == ParseInt(contentLength)
         IN IF p.ok THEN [size |-> p.val, err |-> Nil]
            ELSE [size |-> 0, err |-> GoError("fmt", "Invalid content length")]

\* the Content-Length headers of the model: absent, a length, negative, garbage
ContentLengthHeaders ==
    {<<>>, <<"-", "1">>, <<"x">>} \cup {<<DigitChars[n + 1]>> : n \in 0..MaxLen}

RECURSIVE MD5Sum(_)
\* the digest of a content: a stand-in for MD5 that is injective on the
\* contents of the model (bijective base-3 numeration of the bytes)
MD5Sum(data) ==
    IF data = <<>> THEN 0
    ELSE 3 * MD5Sum(SubSeq(data, 1, Len(data) - 1)) + data[Len(data)] + 1

\* every content a body of the model can amount to
Contents == UNION {[1..n -> Bytes] : n \in 0..MaxLen}

\* a Content-MD5 header: absent, or a string that is or is not the base64
\* encoding of a 16 byte digest
MD5Header(present, wellformed, sum) ==
    [present |-> present, wellformed |-> wellformed, sum |-> sum]
NoMD5Header == MD5Header(FALSE, FALSE, 0)
MD5Headers ==
    {NoMD5Header, MD5Header(TRUE, FALSE, 0)}
        \cup {MD5Header(TRUE, TRUE, MD5Sum(c)) : c \in Contents}

\* a nil md5Sum is the empty sequence, a digest d is <<d>>
parseMD5Hash(md5B64) ==
    IF md5B64.wellformed THEN [sum |-> <<md5B64.sum>>, err |-> Nil]
    ELSE [sum |-> <<>>, err |-> GoError("fmt", "Given Content-MD5 is invalid")]

\* a revision token as the store prints it for generation n
RevToken(n) == ToString(n) \o "-rev"
\* the If-Match header and the rev query parameter: empty, or a token
RevParams == {""} \cup {RevToken(n) : n \in 1..MaxDocs}

\* checkIfMatch reading the header alone, as before the rev parameter
checkIfMatchHeaderOnly(ifMatch, revQuery, rev) ==
    IF ifMatch # "" /\ rev # ifMatch
    THEN JSONAPIError("PreconditionFailed", "If-Match",
                      GoError("fmt", "Revision does not match."))
    ELSE Nil

\* checkIfMatch with the comparison of the revisions turned around
checkIfMatchInverted(ifMatch, revQuery, rev) ==
    LET wantedRev == IF ifMatch # "" THEN ifMatch ELSE revQuery
    IN IF wantedRev # "" /\ rev = wantedRev
       THEN JSONAPIError("PreconditionFailed", "If-Match",
                         GoError("fmt", "Revision does not match."))
       ELSE Nil

\* checkIfMatch taking the rev parameter before the header
checkIfMatchRevFirst(ifMatch, revQuery, rev) ==
    LET wantedRev == IF revQuery # "" THEN revQuery ELSE ifMatch
    IN IF wantedRev # "" /\ rev # wantedRev
       THEN JSONAPIError("PreconditionFailed", "If-Match",
                         GoError("fmt", "Revision does not match."))
       ELSE Nil

\* checkIfMatch without the test for an empty wanted revision
checkIfMatchRequired(ifMatch, revQuery, rev) ==
    LET wantedRev == IF ifMatch # "" THEN ifMatch ELSE revQuery
    IN IF rev # wantedRev
       THEN JSONAPIError("PreconditionFailed", "If-Match",
                         GoError("fmt", "Revision does not match."))
       ELSE Nil

checkIfMatch(ifMatch, revQuery, rev) ==
    LET wanted1 == IF ifMatch # "" THEN ifMatch ELSE ""
        wantedRev == IF revQuery # "" /\ wanted1 = "" THEN revQuery ELSE wanted1
    IN IF wantedRev # "" /\ rev # wantedRev
       THEN JSONAPIError("PreconditionFailed", "If-Match",
                         GoError("fmt", "Revision does not match."))
       ELSE Nil

\* the local variable wantedRev of checkIfMatch
WantedRev(ifMatch, revQuery) ==
    IF ifMatch # "" THEN ifMatch ELSE revQuery

(***************************************************************************)
(* The state: the document store, the blob store and the requests.         *)
(***************************************************************************)
VARIABLES
    docs,   \* the document store: DocIDs -> a document, or NoDoc
    blobs,  \* the blob store: BlobKeys -> a blob, or NoBlob
    req,    \* Reqs -> the state of the request handled in that slot
    nodes,  \* the directory tree: TreeIDs -> a DirDoc or FileDoc, or NoDoc
    nblobs, \* the blobs of the files of the tree: TreeIDs -> BOOLEAN
    tres,   \* the last request on the tree and what it returned
    anchors, \* the root and the trash root: AnchorIDs -> a DirDoc, or NoDoc
    tstore, \* Tenants -> the documents of that tenant's namespace
    tresp,  \* the last request made under a tenant and its response
    dstore, \* the download store: its entries
    now,    \* the clock of the download store
    dresp,  \* the last call on the download store and its result
    call,   \* the last call of a function of the handlers: arguments, result
    csp     \* the configuration of the Secure middleware and the headers it set

filesVars == <<docs, blobs, req>>
treeVars == <<nodes, nblobs, tres, anchors>>
tenantVars == <<tstore, tresp>>
downloadVars == <<dstore, now, dresp>>
callVars == <<call>>
secureVars == <<csp>>
vars == <<docs, blobs, req, nodes, nblobs, tres, anchors, tstore, tresp, dstore, now, dresp, call, csp>>

NoDoc == [type |-> "none"]
NoBlob == [state |-> "none"]

\* a FileDoc: rev is the generation of its revision token (0: not persisted)
FileDoc(name, dirID, size, md5Sum) ==
    [type |-> "file", name |-> name, dir_id |-> dirID, rev |-> 0,
     size |-> size, md5sum |-> md5Sum, blob |-> "",
     trashed |-> FALSE, restore |-> ""]

\* doc.Rev()
Rev(doc) == RevToken(doc.rev)

\* an active (non-trashed) document named name in directory dirID
ActiveSibling(name, dirID) ==
    \E d \in DocIDs :
        /\ docs[d] # NoDoc
        /\ ~docs[d].trashed
        /\ docs[d].name = name
        /\ docs[d].dir_id = dirID

\* the directories of the model: the root and the trash are well-known
DirExists(dirID) == dirID \in {RootDirID, TrashDirID}

\* the state of a request: the handler's position and local variables (err
\* is its variable err, ret what it returned), and what it did to the stores
\* (writes, committed, nread)
IdleReq ==
    [pc |-> "idle", kind |-> "none", id |-> "", name |-> "", dir |-> "",
     olddoc |-> NoDoc, newdoc |-> NoDoc, wantedRev |-> "", file |-> "",
     ferr |-> Nil, err |-> Nil, cerr |-> Nil, ret |-> Nil, status |-> "",
     writes |-> 0, committed |-> FALSE, nread |-> 0,
     held |-> <<>>, body |-> <<>>, closes |-> 0, doctype |-> ""]

\* identifiers held by a request in flight are not handed out again
HeldIDs == {req[q].id : q \in Reqs}
HeldKeys == {req[q].file : q \in Reqs}
FreeIDs == {d \in DocIDs : docs[d] = NoDoc /\ d \notin HeldIDs}
FreeKeys == {k \in BlobKeys : blobs[k] = NoBlob /\ k \notin HeldKeys}
NewID == CHOOSE d \in FreeIDs : TRUE
NewKey == CHOOSE k \in FreeKeys : TRUE

\* the store holds one file, left by an earlier successful upload
InitDocs ==
    [d \in DocIDs |->
        IF d = DocID(1)
        THEN [FileDoc("a", RootDirID, 1, <<MD5Sum(<<0>>)>>)
                 EXCEPT !.rev = 1, !.blob = BlobKey(1)]
        ELSE NoDoc]
InitBlobs ==
    [k \in BlobKeys |->
        IF k = BlobKey(1) THEN [state |-> "committed", data |-> <<0>>]
        ELSE NoBlob]

InitFiles ==
    /\ docs = InitDocs
    /\ blobs = InitBlobs
    /\ req = [r \in Reqs |-> IdleReq]

(***************************************************************************)
(* The vfs engine, from its specification.                                 *)
(***************************************************************************)
\* vfs.NewFileDoc: the name of a document is non-empty
NewFileDoc(name, dirID, size, md5Sum) ==
    IF name = "" THEN [doc |-> NoDoc, err |-> ErrIllegalFilename]
    ELSE [doc |-> FileDoc(name, dirID, size, md5Sum), err |-> Nil]

\* the checks of vfs.CreateFile before it opens the blob: the parent exists
\* and, for a new document, no active sibling has the name
CreateFileCheck(newdoc, olddoc) ==
    IF ~DirExists(newdoc.dir_id) THEN ErrParentDoesNotExist
    ELSE IF olddoc = NoDoc /\ ActiveSibling(newdoc.name, newdoc.dir_id) THEN ErrExist
    ELSE Nil

\* the verification done when the upload is closed: a failed write, then the
\* declared length, then the declared digest
VerifyUpload(newdoc, data, ferr) ==
    IF ferr # Nil THEN ferr
    ELSE IF newdoc.size >= 0 /\ newdoc.size # Len(data) THEN ErrContentLengthMismatch
    ELSE IF newdoc.md5sum # <<>> /\ newdoc.md5sum # <<MD5Sum(data)>> THEN ErrInvalidHash
    ELSE Nil

\* the store's compare-and-swap: a write based on revision rev of document id
StoreAccepts(id, rev) == docs[id] # NoDoc /\ docs[id].rev = rev

(***************************************************************************)
(* The handlers.                                                           *)
(***************************************************************************)
fileDocFromReq(name, dirID, contentLength, md5Str) ==
    LET cl == parseContentLength(contentLength)
        md == IF md5Str.present THEN parseMD5Hash(md5Str)
              ELSE [sum |-> <<>>, err |-> Nil]
    IN IF cl.err # Nil
       THEN [doc |-> NoDoc, err |-> JSONAPIError("InvalidParameter", "Content-Length", cl.err)]
       ELSE IF md.err # Nil
       THEN [doc |-> NoDoc, err |-> JSONAPIError("InvalidParameter", "Content-MD5", md.err)]
       ELSE NewFileDoc(name, dirID, cl.size, md.sum)

\* a deferred Close whose error replaces that of the copy
CloseErrorLast(err, cerr) == IF cerr # Nil THEN cerr ELSE err

\* the deferred Close of the upload handlers: the copy error wins
CloseError(err, cerr) == IF cerr # Nil /\ err = Nil THEN cerr ELSE err

\* what CreationHandler returns for the error of createFileHandler
CreationHandlerReturn(err) == IF err # Nil THEN wrapVfsError(err) ELSE Nil

\* what OverwriteFileContentHandler returns once the upload is closed: the
\* result of wrapVfsError is dropped and the error is returned as it is
OverwriteDeferredReturn(err, cerr) ==
    LET e == CloseError(err, cerr)
    IN IF e # Nil THEN e ELSE Nil

\* a store that keeps the revision of a document it updates
NextRevSame(rev) == rev

\* the revision the store gives a document it updates
NextRev(rev) == rev + 1

\* a handler that loads the document again before the engine writes it
BaseRevReloaded(r) == docs[req[r].id].rev

\* the revision a write is based on: that of the document the handler
\* loaded and passed to the engine
BaseRev(r) == req[r].olddoc.rev

\* the handler returns ret with its variable err holding err; its local
\* documents are gone
Done(rq, err, ret) ==
    [rq EXCEPT !.pc = "done", !.err = err, !.ret = ret, !.newdoc = NoDoc,
               !.status = IF ret # Nil THEN ""
                          ELSE IF rq.kind = "create" THEN "201 Created"
                          ELSE "200 OK"]

\* the handler returns the error e through wrapVfsError
Failed(rq, e) == Done(rq, e, wrapVfsError(e))

\* the upload is closed with the close error cerr and the handler returns
UploadDone(rq, cerr) ==
    LET e == CloseError(rq.err, cerr)
    IN IF rq.kind = "create"
       THEN Done([rq EXCEPT !.cerr = cerr], e, CreationHandlerReturn(e))
       ELSE Done([rq EXCEPT !.cerr = cerr], e, OverwriteDeferredReturn(rq.err, cerr))

\* a request starts only when no other request is in flight; the slots are
\* used in order
Sequential(r) ==
    /\ \A q \in Reqs \ {r} : req[q].pc \in {"idle", "gone"}
    /\ r = "r1" \/ req["r1"].pc = "gone"

StartCreate(r) ==
    /\ req[r].pc = "idle"
    /\ \E name \in NameParams, dir \in DirParams :
         req' = [req EXCEPT ![r] =
                    [IdleReq EXCEPT !.pc = "prepare", !.kind = "create",
                                    !.name = name, !.dir = dir]]
    /\ UNCHANGED <<docs, blobs>>

\* the values of vfs.FileType and vfs.DirType, and the Type parameters of
\* the model: these two, none, and one that is neither
FileType == "file"
DirType == "directory"
TypeParams == {FileType, DirType, "", "symlink"}

\* a CreationHandler that takes every unknown type for a file
CreationSwitchFileDefault(type) ==
    IF type = DirType THEN "createDirHandler" ELSE "createFileHandler"

\* the switch of CreationHandler on the Type parameter
CreationSwitch(type) ==
    IF type = FileType THEN "createFileHandler"
    ELSE IF type = DirType THEN "createDirHandler"
    ELSE "default"

\* CreationHandler: a file goes to the upload, a directory is created by its
\* name and parent, any other type is refused
StartCreation(r) ==
    /\ req[r].pc = "idle"
    /\ \E type \in TypeParams, name \in NameParams, dir \in DirParams :
         LET rq == [IdleReq EXCEPT !.kind = "create", !.doctype = type,
                                   !.name = name, !.dir = dir]
             e == IF name = "" THEN ErrIllegalFilename
                  ELSE IF ~DirExists(dir) THEN ErrParentDoesNotExist
                  ELSE IF ActiveSibling(name, dir) THEN ErrExist
                  ELSE Nil
         IN CASE CreationSwitch(type) = "createFileHandler" ->
                    /\ req' = [req EXCEPT ![r] = [rq EXCEPT !.pc = "prepare"]]
                    /\ UNCHANGED docs
              [] CreationSwitch(type) = "createDirHandler" ->
                    IF e # Nil
                    THEN /\ req' = [req EXCEPT ![r] = Failed(rq, e)]
                         /\ UNCHANGED docs
                    ELSE /\ req' = [req EXCEPT ![r] =
                                       Done([rq EXCEPT !.id = NewID, !.writes = 1,
                                                       !.committed = TRUE], Nil, Nil)]
                         /\ docs' = [docs EXCEPT ![NewID] =
                                        [FileDoc(name, dir, 0, <<>>) EXCEPT
                                            !.type = "dir", !.rev = 1]]
              [] OTHER ->
                    /\ req' = [req EXCEPT ![r] = Failed(rq, ErrDocTypeInvalid)]
                    /\ UNCHANGED docs
    /\ UNCHANGED blobs

StartOverwrite(r) ==
    /\ req[r].pc = "idle"
    /\ \E id \in DocIDs :
         req' = [req EXCEPT ![r] =
                    [IdleReq EXCEPT !.pc = "load", !.kind = "overwrite", !.id = id]]
    /\ UNCHANGED <<docs, blobs>>

StartPatch(r) ==
    /\ req[r].pc = "idle"
    /\ \E id \in DocIDs, name \in NameParams :
         req' = [req EXCEPT ![r] =
                    [IdleReq EXCEPT !.pc = "load", !.kind = "patch",
                                    !.id = id, !.name = name]]
    /\ UNCHANGED <<docs, blobs>>

StartTrash(r) ==
    /\ req[r].pc = "idle"
    /\ \E id \in DocIDs :
         req' = [req EXCEPT ![r] =
                    [IdleReq EXCEPT !.pc = "load", !.kind = "trash", !.id = id]]
    /\ UNCHANGED <<docs, blobs>>

\* vfs.GetFileDoc, vfs.GetDirOrFileDoc: the document, or a not-found error
GetDoc(r) ==
    /\ req[r].pc = "load"
    /\ LET rq == req[r]
           doc == docs[rq.id]
       IN req' = [req EXCEPT ![r] =
                     IF doc = NoDoc THEN Failed(rq, ErrNotExist)
                     ELSE [rq EXCEPT !.olddoc = doc,
                                     !.pc = CASE rq.kind = "overwrite" -> "prepare"
                                              [] rq.kind = "patch" -> "check"
                                              [] rq.kind = "read" -> "serve"
                                              [] OTHER -> "trash"]]
    /\ UNCHANGED <<docs, blobs>>

\* fileDocFromReq, with the headers of the request drawn from the given sets
Prepare(r, lengths, sums) ==
    /\ req[r].pc = "prepare"
    /\ \E contentLength \in lengths, md5Str \in sums :
         LET rq == req[r]
             res == IF rq.kind = "create"
                    THEN fileDocFromReq(rq.name, rq.dir, contentLength, md5Str)
                    ELSE fileDocFromReq(rq.olddoc.name, rq.olddoc.dir_id,
                                        contentLength, md5Str)
         IN req' = [req EXCEPT ![r] =
                       IF res.err # Nil THEN Failed(rq, res.err)
                       ELSE [rq EXCEPT !.newdoc = res.doc,
                                       !.pc = IF rq.kind = "create" THEN "open"
                                              ELSE "check"]]
    /\ UNCHANGED <<docs, blobs>>

\* checkIfMatch against the revision of the loaded document
Check(r) ==
    /\ req[r].pc = "check"
    /\ \E ifMatch \in RevParams, revQuery \in RevParams :
         LET rq == [req[r] EXCEPT !.wantedRev = WantedRev(ifMatch, revQuery)]
             e == checkIfMatch(ifMatch, revQuery, Rev(rq.olddoc))
         IN req' = [req EXCEPT ![r] =
                       IF e # Nil THEN Failed(rq, e)
                       ELSE [rq EXCEPT !.pc = IF rq.kind = "overwrite" THEN "open"
                                              ELSE "modify"]]
    /\ UNCHANGED <<docs, blobs>>

\* vfs.CreateFile: the checks, then a new blob is opened for writing
Open(r) ==
    /\ req[r].pc = "open"
    /\ LET rq == req[r]
           e == CreateFileCheck(rq.newdoc, rq.olddoc)
       IN IF e # Nil
          THEN /\ req' = [req EXCEPT ![r] = Failed(rq, e)]
               /\ UNCHANGED blobs
          ELSE /\ req' = [req EXCEPT ![r] =
                             [rq EXCEPT !.pc = "copy", !.file = NewKey,
                                        !.id = IF rq.kind = "create" THEN NewID ELSE @]]
               /\ blobs' = [blobs EXCEPT ![NewKey] = [state |-> "open", data |-> <<>>]]
    /\ UNCHANGED docs

\* io.Copy: one more byte of the body is read and written to the file
CopyByte(r, bytes) ==
    /\ req[r].pc = "copy"
    /\ Len(blobs[req[r].file].data) < MaxLen
    /\ \E b \in bytes :
         blobs' = [blobs EXCEPT ![req[r].file].data = Append(@, b)]
    /\ req' = [req EXCEPT ![r].nread = @ + 1]
    /\ UNCHANGED docs

\* io.Copy: the body ends
CopyEOF(r) ==
    /\ req[r].pc = "copy"
    /\ req' = [req EXCEPT ![r].pc = "close", ![r].err = Nil]
    /\ UNCHANGED <<docs, blobs>>

\* io.Copy: reading the body fails, the client is gone
CopyReadError(r) ==
    /\ req[r].pc = "copy"
    /\ req' = [req EXCEPT ![r].pc = "close", ![r].err = ErrUnexpectedEOF]
    /\ UNCHANGED <<docs, blobs>>

\* io.Copy: a byte is read and the write to the file fails
CopyWriteError(r) ==
    /\ req[r].pc = "copy"
    /\ Len(blobs[req[r].file].data) < MaxLen
    /\ req' = [req EXCEPT ![r].pc = "close", ![r].err = ErrBlobWrite,
                          ![r].ferr = ErrBlobWrite, ![r].nread = @ + 1]
    /\ UNCHANGED <<docs, blobs>>

\* file.Close, first part: the blob is closed and verified, or discarded
CloseVerify(r) ==
    /\ req[r].pc = "close"
    /\ LET rq == [req[r] EXCEPT !.closes = @ + 1]
           data == blobs[rq.file].data
           cerr == VerifyUpload(rq.newdoc, data, rq.ferr)
       IN IF cerr # Nil
          THEN /\ blobs' = [blobs EXCEPT ![rq.file] = NoBlob]
               /\ req' = [req EXCEPT ![r] = UploadDone(rq, cerr)]
          ELSE /\ blobs' = [blobs EXCEPT ![rq.file].state = "committed"]
               /\ req' = [req EXCEPT ![r] =
                             [rq EXCEPT !.pc = "commit",
                                        !.newdoc.size = IF @ < 0 THEN Len(data) ELSE @,
                                        !.newdoc.md5sum =
                                            IF @ = <<>> THEN <<MD5Sum(data)>> ELSE @,
                                        !.newdoc.blob = rq.file]]
    /\ UNCHANGED docs

\* file.Close, second part: the metadata is persisted
CloseCommit(r) ==
    /\ req[r].pc = "commit"
    /\ req[r].kind \in {"create", "overwrite"}
    /\ LET rq == req[r]
       IN IF rq.kind = "create"
          THEN /\ docs' = [docs EXCEPT ![rq.id] = [rq.newdoc EXCEPT !.rev = 1]]
               /\ req' = [req EXCEPT ![r] = UploadDone([rq EXCEPT !.writes = @ + 1, !.committed = TRUE], Nil)]
               /\ UNCHANGED blobs
          ELSE IF StoreAccepts(rq.id, BaseRev(r))
          THEN /\ docs' = [docs EXCEPT ![rq.id] =
                              [rq.newdoc EXCEPT !.rev = NextRev(docs[rq.id].rev)]]
               /\ req' = [req EXCEPT ![r] = [rq EXCEPT !.pc = "cleanup", !.writes = @ + 1,
                                                  !.committed = TRUE]]
               /\ UNCHANGED blobs
          ELSE /\ blobs' = [blobs EXCEPT ![rq.file] = NoBlob]
               /\ req' = [req EXCEPT ![r] =
                             UploadDone([rq EXCEPT !.writes = @ + 1], ErrConflict)]
               /\ UNCHANGED docs

\* file.Close, last part: the superseded blob is removed
CloseCleanup(r) ==
    /\ req[r].pc = "cleanup"
    /\ blobs' = [blobs EXCEPT ![req[r].olddoc.blob] = NoBlob]
    /\ req' = [req EXCEPT ![r] = UploadDone(req[r], Nil)]
    /\ UNCHANGED docs

\* vfs.ModifyFileMetadata, first part: a new name must be free
Modify(r) ==
    /\ req[r].pc = "modify"
    /\ LET rq == req[r]
           e == IF rq.name = "" THEN ErrIllegalFilename
                ELSE IF rq.name # rq.olddoc.name
                        /\ ActiveSibling(rq.name, rq.olddoc.dir_id) THEN ErrExist
                ELSE Nil
       IN req' = [req EXCEPT ![r] =
                     IF e # Nil THEN Failed(rq, e)
                     ELSE [rq EXCEPT !.pc = "commit",
                                     !.newdoc = [rq.olddoc EXCEPT !.name = rq.name]]]
    /\ UNCHANGED <<docs, blobs>>

\* vfs.ModifyFileMetadata, second part: the document is updated in the store
ModifyCommit(r) ==
    /\ req[r].pc = "commit"
    /\ req[r].kind = "patch"
    /\ LET rq == req[r]
       IN IF StoreAccepts(rq.id, BaseRev(r))
          THEN /\ docs' = [docs EXCEPT ![rq.id] =
                              [rq.newdoc EXCEPT !.rev = NextRev(docs[rq.id].rev)]]
               /\ req' = [req EXCEPT ![r] = Done([rq EXCEPT !.writes = @ + 1, !.committed = TRUE], Nil, Nil)]
          ELSE /\ req' = [req EXCEPT ![r] = Failed([rq EXCEPT !.writes = @ + 1], ErrConflict)]
               /\ UNCHANGED docs
    /\ UNCHANGED blobs

\* vfs.TrashFile: the document moves under the trash and keeps its parent
Trash(r) ==
    /\ req[r].pc = "trash"
    /\ LET rq == req[r]
       IN IF rq.olddoc.trashed
          THEN /\ req' = [req EXCEPT ![r] = Failed(rq, ErrFileInTrash)]
               /\ UNCHANGED docs
          ELSE IF StoreAccepts(rq.id, BaseRev(r))
          THEN /\ docs' = [docs EXCEPT ![rq.id] =
                              [rq.olddoc EXCEPT !.rev = NextRev(docs[rq.id].rev),
                                                !.dir_id = TrashDirID,
                                                !.restore = rq.olddoc.dir_id,
                                                !.trashed = TRUE]]
               /\ req' = [req EXCEPT ![r] = Done([rq EXCEPT !.writes = @ + 1, !.committed = TRUE], Nil, Nil)]
          ELSE /\ req' = [req EXCEPT ![r] = Failed([rq EXCEPT !.writes = @ + 1], ErrConflict)]
               /\ UNCHANGED docs
    /\ UNCHANGED blobs

StartRead(r) ==
    /\ req[r].pc = "idle"
    /\ \E id \in DocIDs :
         req' = [req EXCEPT ![r] =
                    [IdleReq EXCEPT !.pc = "load", !.kind = "read", !.id = id]]
    /\ UNCHANGED <<docs, blobs>>

\* vfs.ServeFileContent, first part: the blob bound to the loaded document
\* is opened for reading, or is missing
ServeOpen(r) ==
    /\ req[r].pc = "serve"
    /\ LET rq == req[r]
           key == rq.olddoc.blob
       IN req' = [req EXCEPT ![r] =
                     IF blobs[key] = NoBlob THEN Failed(rq, ErrNotExist)
                     ELSE [rq EXCEPT !.pc = "send", !.file = key,
                                     !.held = blobs[key].data]]
    /\ UNCHANGED <<docs, blobs>>

\* vfs.ServeFileContent: one more byte of the open blob goes to the response
ServeByte(r) ==
    /\ req[r].pc = "send"
    /\ Len(req[r].body) < Len(req[r].held)
    /\ req' = [req EXCEPT ![r].body = Append(@, req[r].held[Len(@) + 1])]
    /\ UNCHANGED <<docs, blobs>>

\* vfs.ServeFileContent: the blob was removed while it was read and the read
\* fails; a blob store that keeps an open blob readable goes on instead
ServeReadError(r) ==
    /\ req[r].pc = "send"
    /\ blobs[req[r].file] = NoBlob
    /\ req' = [req EXCEPT ![r] = Failed([req[r] EXCEPT !.held = <<>>], ErrNotExist)]
    /\ UNCHANGED <<docs, blobs>>

\* vfs.ServeFileContent: the whole blob has been sent
ServeEOF(r) ==
    /\ req[r].pc = "send"
    /\ Len(req[r].body) = Len(req[r].held)
    /\ req' = [req EXCEPT ![r] = Done([req[r] EXCEPT !.held = <<>>], Nil, Nil)]
    /\ UNCHANGED <<docs, blobs>>

\* the handler has returned and the request is over
Return(r) ==
    /\ req[r].pc = "done"
    /\ req' = [req EXCEPT ![r] = [IdleReq EXCEPT !.pc = "gone"]]
    /\ UNCHANGED <<docs, blobs>>

(***************************************************************************)
(* The directory tree: patches (rename, move), trash, restore and purge.   *)
(***************************************************************************)
MaxTreeOps == 3

TreeIDs == {"d1", "d2", "d3", "f1", "f2"}
TrashDirName == ".cozy_trash"

\* a DirDoc: path is the denormalized path, the names from the root down
DirDoc(name, dirID, path) ==
    [type |-> "dir", name |-> name, dir_id |-> dirID, rev |-> 1,
     path |-> path, trashed |-> FALSE, restore |-> ""]

\* /a, /a/b, /c, and the files /a/b/f and /a/g
InitNodes ==
    [m \in TreeIDs |->
        CASE m = "d1" -> DirDoc("a", RootDirID, <<"a">>)
          [] m = "d2" -> DirDoc("b", "d1", <<"a", "b">>)
          [] m = "d3" -> DirDoc("c", RootDirID, <<"c">>)
          [] m = "f1" -> [FileDoc("f", "d2", 0, <<MD5Sum(<<>>)>>) EXCEPT !.rev = 1, !.blob = "f1"]
          [] OTHER -> [FileDoc("g", "d1", 0, <<MD5Sum(<<>>)>>) EXCEPT !.rev = 1, !.blob = "f2"]]

\* a request on the tree: the document, the name and parent asked for, the
\* error of the engine and what the handler returned; retry tells a request
\* that repeats the one before, which failed; n counts the requests
NoTreeRequest ==
    [op |-> "none", id |-> "", name |-> "", dir |-> "", err |-> Nil, ret |-> Nil,
     retry |-> FALSE, n |-> 0, path |-> <<>>]

\* the two well-known directories: the root has no parent, the trash root is
\* a child of the root
AnchorIDs == {RootDirID, TrashDirID}
InitAnchors ==
    [a \in AnchorIDs |->
        IF a = RootDirID THEN DirDoc("", "", <<>>)
        ELSE DirDoc(TrashDirName, RootDirID, <<TrashDirName>>)]

InitTree ==
    /\ anchors = InitAnchors
    /\ nodes = InitNodes
    /\ nblobs = [m \in TreeIDs |-> InitNodes[m].type = "file"]
    /\ tres = NoTreeRequest

\* the longest parent chain there can be
TreeDepth == Cardinality(TreeIDs)

\* the document id is in the table ns
InTree(ns, id) == id \in TreeIDs /\ ns[id] # NoDoc

\* id is a directory of ns
IsDir(ns, id) == id \in {RootDirID, TrashDirID} \/ (InTree(ns, id) /\ ns[id].type = "dir")

\* walking the parent references of ns from id, at most fuel of them, meets
\* target
RECURSIVE ChainHas(_, _, _, _)
ChainHas(ns, id, target, fuel) ==
    IF id = target THEN TRUE
    ELSE IF ~InTree(ns, id) \/ fuel = 0 THEN FALSE
    ELSE ChainHas(ns, ns[id].dir_id, target, fuel - 1)

\* id is the descendant-or-self test of the cycle check: src appears on the
\* chain of ancestors of dst
IsAncestorOrSelf(ns, src, dst) == ChainHas(ns, dst, src, TreeDepth)

InTrash(ns, id) == ChainHas(ns, id, TrashDirID, TreeDepth)

\* the documents of the subtree of id, id included
Subtree(ns, id) == {m \in TreeIDs : InTree(ns, m) /\ IsAncestorOrSelf(ns, id, m)}

Children(ns, id) == {m \in TreeIDs : InTree(ns, m) /\ ns[m].dir_id = id}

\* the stored path of a directory
PathOf(ns, id) ==
    IF id = RootDirID THEN <<>>
    ELSE IF id = TrashDirID THEN <<TrashDirName>>
    ELSE ns[id].path

\* another document with that name in that directory; the trash holds
\* documents of the same name
TreeSibling(ns, id, name, dirID) ==
    /\ dirID # TrashDirID
    /\ \E m \in TreeIDs \ {id} :
           InTree(ns, m) /\ ns[m].name = name /\ ns[m].dir_id = dirID

\* vfs.ModifyFileMetadata: the table once file id has the given name and
\* parent, under a new revision
ModifyFileMetadata(ns, id, name, dirID) ==
    [ns EXCEPT ![id].name = name, ![id].dir_id = dirID, ![id].rev = @ + 1]

\* vfs.ModifyDirMetadata: the table once directory id has the given name and
\* parent, under a new revision; the path of id and of every directory below
\* it is rewritten from the path of the new parent
ModifyDirMetadata(ns, id, name, dirID) ==
    LET oldPath == ns[id].path
        newPath == Append(PathOf(ns, dirID), name)
    IN [m \in TreeIDs |->
           IF m = id
           THEN [ns[id] EXCEPT !.name = name, !.dir_id = dirID, !.rev = @ + 1,
                               !.path = newPath]
           ELSE IF m \in Subtree(ns, id) /\ ns[m].type = "dir"
           THEN [ns[m] EXCEPT !.path =
                    newPath \o SubSeq(@, Len(oldPath) + 1, Len(@))]
           ELSE ns[m]]

\* a handler that takes every document for a file
MovedAsFile(ns, id, name, dirID) == ModifyFileMetadata(ns, id, name, dirID)

\* the handlers tell a file from a directory and call the engine for it
Moved(ns, id, name, dirID) ==
    IF ns[id].type = "file" THEN ModifyFileMetadata(ns, id, name, dirID)
    ELSE ModifyDirMetadata(ns, id, name, dirID)

\* a DocPatch: a new name and a new parent, each a sequence empty when absent
PatchNames == {<<>>, <<"a">>, <<"c">>}
PatchDirs == {<<>>, <<RootDirID>>, <<"d1">>, <<"d2">>, <<"d3">>, <<TrashDirID>>}

\* the cycle check of a reparenting: the source is on the chain of ancestors
\* of the destination
MoveIsCycle(ns, id, dirID) == ns[id].type = "dir" /\ IsAncestorOrSelf(ns, id, dirID)

\* vfs.ModifyFileMetadata, vfs.ModifyDirMetadata: the error of the patch
PatchError(ns, id, name, dirID) ==
    IF dirID # ns[id].dir_id /\ MoveIsCycle(ns, id, dirID) THEN ErrForbiddenDocMove
    ELSE IF InTrash(ns, id) THEN ErrFileInTrash
    ELSE IF name = "" THEN ErrIllegalFilename
    ELSE IF dirID # ns[id].dir_id /\ ~IsDir(ns, dirID) THEN ErrParentDoesNotExist
    ELSE IF dirID # ns[id].dir_id /\ InTrash(ns, dirID) THEN ErrForbiddenDocMove
    ELSE IF (name # ns[id].name \/ dirID # ns[id].dir_id) /\ TreeSibling(ns, id, name, dirID)
    THEN ErrExist
    ELSE Nil

\* the request op on id returned through wrapVfsError, or with no error
TreeReturn(op, id, e) ==
    [op |-> op, id |-> id, name |-> "", dir |-> "", err |-> e,
     ret |-> IF e # Nil THEN wrapVfsError(e) ELSE Nil,
     retry |-> (tres.op = op /\ tres.id = id /\ tres.err # Nil),
     n |-> tres.n + 1, path |-> <<>>]

\* ModificationHandler on a document of the tree
PatchDoc(id, patchName, patchDir, ifMatch) ==
    /\ tres.n < MaxTreeOps
    /\ IF ~InTree(nodes, id)
       THEN /\ tres' = TreeReturn("patch", id, ErrNotExist)
            /\ UNCHANGED nodes
       ELSE LET name == IF patchName = <<>> THEN nodes[id].name ELSE patchName[1]
                dirID == IF patchDir = <<>> THEN nodes[id].dir_id ELSE patchDir[1]
                pre == checkIfMatch(ifMatch, "", Rev(nodes[id]))
                e == IF pre # Nil THEN pre ELSE PatchError(nodes, id, name, dirID)
            IN /\ tres' = [TreeReturn("patch", id, e) EXCEPT !.name = name, !.dir = dirID]
               /\ nodes' = IF e # Nil THEN nodes ELSE Moved(nodes, id, name, dirID)
    /\ UNCHANGED nblobs

\* TrashHandler on a document of the tree: the document alone is reparented
\* under the trash and keeps its parent as its restore parent
TrashDoc(id) ==
    /\ tres.n < MaxTreeOps
    /\ IF ~InTree(nodes, id)
       THEN /\ tres' = TreeReturn("trash", id, ErrNotExist)
            /\ UNCHANGED nodes
       ELSE IF InTrash(nodes, id)
       THEN /\ tres' = TreeReturn("trash", id, ErrFileInTrash)
            /\ UNCHANGED nodes
       ELSE /\ tres' = TreeReturn("trash", id, Nil)
            /\ nodes' = [Moved(nodes, id, nodes[id].name, TrashDirID)
                            EXCEPT ![id].trashed = TRUE,
                                   ![id].restore = nodes[id].dir_id]
    /\ UNCHANGED nblobs

\* a restore that does not look at the original slot
RestoreErrorUnchecked(ns, id) ==
    IF ~IsDir(ns, ns[id].restore) THEN ErrParentDoesNotExist ELSE Nil

\* restore of a trashed document: its name and restore parent are checked
\* again for a collision
RestoreError(ns, id) ==
    IF ~IsDir(ns, ns[id].restore) THEN ErrParentDoesNotExist
    ELSE IF TreeSibling(ns, id, ns[id].name, ns[id].restore) THEN ErrExist
    ELSE Nil

RestoreDoc(id) ==
    /\ tres.n < MaxTreeOps
    /\ InTree(nodes, id)
    /\ nodes[id].trashed
    /\ LET e == RestoreError(nodes, id)
       IN /\ tres' = TreeReturn("restore", id, e)
          /\ nodes' = IF e # Nil THEN nodes
                      ELSE [Moved(nodes, id, nodes[id].name, nodes[id].restore)
                               EXCEPT ![id].trashed = FALSE, ![id].restore = ""]
    /\ UNCHANGED nblobs

ErrBlobDelete == GoError("io", "ErrBlobDelete")

\* a purge that deletes the documents whatever happened to the blobs
PurgedAll(ns, id, failed) ==
    [m \in TreeIDs |-> IF m \in Subtree(ns, id) THEN NoDoc ELSE ns[m]]

\* the documents left by the purge of the subtree of id: all of the subtree
\* are deleted once every blob is, none when a blob deletion failed
Purged(ns, id, failed) ==
    IF failed # {} THEN ns
    ELSE [m \in TreeIDs |-> IF m \in Subtree(ns, id) THEN NoDoc ELSE ns[m]]

\* purge of a trashed subtree; the deletion of the blobs of the files in
\* failed fails
PurgeDoc(id) ==
    /\ tres.n < MaxTreeOps
    /\ InTree(nodes, id)
    /\ nodes[id].trashed
    /\ LET files == {m \in Subtree(nodes, id) : nodes[m].type = "file"}
       IN \E failed \in SUBSET {m \in files : nblobs[m]} :
            /\ nblobs' = [m \in TreeIDs |->
                             IF m \in files \ failed THEN FALSE ELSE nblobs[m]]
            /\ nodes' = Purged(nodes, id, failed)
            /\ tres' = TreeReturn("purge", id,
                                  IF failed # {} THEN ErrBlobDelete ELSE Nil)

\* the patches of the tree are those of directories and carry no expected
\* revision
PatchIDs == {m \in TreeIDs : InitNodes[m].type = "dir"}
TreeIfMatch == {""}

\* an engine that takes the root and the trash root for any directory
AnchorErrorNone(op, id) == Nil

\* the root and the trash root are immutable: the engine refuses to move,
\* trash or purge them
AnchorError(op, id) ==
    IF id \notin AnchorIDs THEN Nil
    ELSE IF op = "purge" THEN ErrDirNotEmpty
    ELSE ErrForbiddenDocMove

\* ModificationHandler on the root or the trash root
PatchAnchor(id, patchName, patchDir) ==
    /\ tres.n < MaxTreeOps
    /\ LET name == IF patchName = <<>> THEN anchors[id].name ELSE patchName[1]
           dirID == IF patchDir = <<>> THEN anchors[id].dir_id ELSE patchDir[1]
           e == IF anchors[id] = NoDoc THEN ErrNotExist
                ELSE IF AnchorError("patch", id) # Nil THEN AnchorError("patch", id)
                ELSE IF ~IsDir(nodes, dirID) THEN ErrParentDoesNotExist
                ELSE Nil
       IN /\ tres' = [TreeReturn("patch", id, e) EXCEPT !.name = name, !.dir = dirID]
          /\ anchors' = IF e # Nil THEN anchors
                        ELSE [anchors EXCEPT ![id].name = name, ![id].dir_id = dirID,
                                             ![id].rev = @ + 1,
                                             ![id].path = Append(PathOf(nodes, dirID), name)]
    /\ UNCHANGED <<nodes, nblobs>>

\* TrashHandler on the root or the trash root
TrashAnchor(id) ==
    /\ tres.n < MaxTreeOps
    /\ LET e == IF anchors[id] = NoDoc THEN ErrNotExist
                ELSE IF anchors[id].trashed THEN ErrFileInTrash
                ELSE AnchorError("trash", id)
       IN /\ tres' = TreeReturn("trash", id, e)
          /\ anchors' = IF e # Nil THEN anchors
                        ELSE [anchors EXCEPT ![id].dir_id = TrashDirID,
                                             ![id].restore = anchors[id].dir_id,
                                             ![id].trashed = TRUE,
                                             ![id].rev = @ + 1,
                                             ![id].path = <<TrashDirName, anchors[id].name>>]
    /\ UNCHANGED <<nodes, nblobs>>

\* purge of the root or the trash root
PurgeAnchor(id) ==
    /\ tres.n < MaxTreeOps
    /\ LET e == IF anchors[id] = NoDoc THEN ErrNotExist
                ELSE AnchorError("purge", id)
       IN /\ tres' = TreeReturn("purge", id, e)
          /\ anchors' = IF e # Nil THEN anchors ELSE [anchors EXCEPT ![id] = NoDoc]
    /\ UNCHANGED <<nodes, nblobs>>

NextTree ==
    \/ \E id \in PatchIDs, patchName \in PatchNames, patchDir \in PatchDirs,
          ifMatch \in TreeIfMatch :
            PatchDoc(id, patchName, patchDir, ifMatch) /\ UNCHANGED <<anchors, filesVars, tenantVars, downloadVars, callVars, secureVars>>
    \/ \E id \in TreeIDs : TrashDoc(id) /\ UNCHANGED <<anchors, filesVars, tenantVars, downloadVars, callVars, secureVars>>
    \/ \E id \in TreeIDs : RestoreDoc(id) /\ UNCHANGED <<anchors, filesVars, tenantVars, downloadVars, callVars, secureVars>>
    \/ \E id \in TreeIDs : PurgeDoc(id) /\ UNCHANGED <<anchors, filesVars, tenantVars, downloadVars, callVars, secureVars>>

\* the requests on the documents of the tree and on its two anchors
NextAnchors ==
    \/ \E id \in PatchIDs, patchName \in PatchNames, patchDir \in PatchDirs,
          ifMatch \in TreeIfMatch :
            PatchDoc(id, patchName, patchDir, ifMatch) /\ UNCHANGED <<anchors, filesVars, tenantVars, downloadVars, callVars, secureVars>>
    \/ \E id \in TreeIDs : TrashDoc(id) /\ UNCHANGED <<anchors, filesVars, tenantVars, downloadVars, callVars, secureVars>>
    \/ \E id \in TreeIDs : PurgeDoc(id) /\ UNCHANGED <<anchors, filesVars, tenantVars, downloadVars, callVars, secureVars>>
    \/ \E id \in AnchorIDs, patchName \in PatchNames, patchDir \in PatchDirs :
          PatchAnchor(id, patchName, patchDir) /\ UNCHANGED <<filesVars, tenantVars, downloadVars, callVars, secureVars>>
    \/ \E id \in AnchorIDs : TrashAnchor(id) /\ UNCHANGED <<filesVars, tenantVars, downloadVars, callVars, secureVars>>
    \/ \E id \in AnchorIDs : PurgeAnchor(id) /\ UNCHANGED <<filesVars, tenantVars, downloadVars, callVars, secureVars>>

(***************************************************************************)
(* The tenants: every request runs under the instance of its host.         *)
(***************************************************************************)
Tenants == {"alice", "bob"}
TenantDocIDs == {"t1", "t2"}
TenantNames == {"a", "b"}
TenantContents == {1, 2}

TenantDoc(name, content) == [name |-> name, content |-> content, trashed |-> FALSE]

\* alice and bob each have a file named a, under the same identifier
InitTenantStore ==
    [t \in Tenants |->
        [d \in TenantDocIDs |->
            IF d = "t1" THEN TenantDoc("a", IF t = "alice" THEN 1 ELSE 2) ELSE NoDoc]]

\* a request under a tenant, its response and the content it served
NoTenantRequest ==
    [tenant |-> "", op |-> "none", id |-> "", name |-> "", ret |-> Nil, body |-> <<>>]

InitTenants ==
    /\ tstore = InitTenantStore
    /\ tresp = NoTenantRequest

\* handlers that all work on one instance
GetInstanceShared(tenant) == "alice"

\* middlewares.GetInstance: the instance of the tenant the request came to
GetInstance(tenant) == tenant

TenantResponse(tenant, op, id, name, e, body) ==
    [tenant |-> tenant, op |-> op, id |-> id, name |-> name,
     ret |-> IF e # Nil THEN wrapVfsError(e) ELSE Nil, body |-> body]

\* CreationHandler under a tenant: the name is checked among the documents
\* of the instance
TenantCreate(tenant, name) ==
    LET instance == GetInstance(tenant)
        taken == \E d \in TenantDocIDs :
                     /\ tstore[instance][d] # NoDoc
                     /\ ~tstore[instance][d].trashed
                     /\ tstore[instance][d].name = name
        free == {d \in TenantDocIDs : tstore[instance][d] = NoDoc}
    IN IF taken
       THEN /\ tresp' = TenantResponse(tenant, "create", "", name, ErrExist, <<>>)
            /\ UNCHANGED tstore
       ELSE /\ free # {}
            /\ \E d \in free, content \in TenantContents :
                 /\ tstore' = [tstore EXCEPT ![instance][d] = TenantDoc(name, content)]
                 /\ tresp' = TenantResponse(tenant, "create", d, name, Nil, <<>>)

\* OverwriteFileContentHandler under a tenant
TenantOverwrite(tenant, id, content) ==
    LET instance == GetInstance(tenant)
    IN IF tstore[instance][id] = NoDoc
       THEN /\ tresp' = TenantResponse(tenant, "overwrite", id, "", ErrNotExist, <<>>)
            /\ UNCHANGED tstore
       ELSE /\ tstore' = [tstore EXCEPT ![instance][id].content = content]
            /\ tresp' = TenantResponse(tenant, "overwrite", id, "", Nil, <<>>)

\* TrashHandler under a tenant
TenantTrash(tenant, id) ==
    LET instance == GetInstance(tenant)
    IN IF tstore[instance][id] = NoDoc
       THEN /\ tresp' = TenantResponse(tenant, "trash", id, "", ErrNotExist, <<>>)
            /\ UNCHANGED tstore
       ELSE IF tstore[instance][id].trashed
       THEN /\ tresp' = TenantResponse(tenant, "trash", id, "", ErrFileInTrash, <<>>)
            /\ UNCHANGED tstore
       ELSE /\ tstore' = [tstore EXCEPT ![instance][id].trashed = TRUE]
            /\ tresp' = TenantResponse(tenant, "trash", id, "", Nil, <<>>)

\* ReadFileContentFromIDHandler under a tenant
TenantRead(tenant, id) ==
    LET instance == GetInstance(tenant)
    IN /\ tresp' = IF tstore[instance][id] = NoDoc
                   THEN TenantResponse(tenant, "read", id, "", ErrNotExist, <<>>)
                   ELSE TenantResponse(tenant, "read", id, "", Nil,
                                       <<tstore[instance][id].content>>)
       /\ UNCHANGED tstore

NextTenants ==
    \/ \E tenant \in Tenants, name \in TenantNames :
          TenantCreate(tenant, name) /\ UNCHANGED <<filesVars, treeVars, downloadVars, callVars, secureVars>>
    \/ \E tenant \in Tenants, id \in TenantDocIDs, content \in TenantContents :
          TenantOverwrite(tenant, id, content) /\ UNCHANGED <<filesVars, treeVars, downloadVars, callVars, secureVars>>
    \/ \E tenant \in Tenants, id \in TenantDocIDs :
          TenantTrash(tenant, id) /\ UNCHANGED <<filesVars, treeVars, downloadVars, callVars, secureVars>>
    \/ \E tenant \in Tenants, id \in TenantDocIDs :
          TenantRead(tenant, id) /\ UNCHANGED <<filesVars, treeVars, downloadVars, callVars, secureVars>>

(***************************************************************************)
(* Creation of directories, by name and parent or by path.                 *)
(***************************************************************************)
\* a tree holding the directory /a and the file /a/f, the other identifiers
\* being free
MkdirNodes ==
    [m \in TreeIDs |->
        CASE m = "d1" -> DirDoc("a", RootDirID, <<"a">>)
          [] m = "f1" -> [FileDoc("f", "d1", 0, <<MD5Sum(<<>>)>>) EXCEPT !.rev = 1, !.blob = "f1"]
          [] OTHER -> NoDoc]

InitMkdirTree ==
    /\ anchors = InitAnchors
    /\ nodes = MkdirNodes
    /\ nblobs = [m \in TreeIDs |-> m = "f1"]
    /\ tres = NoTreeRequest

\* the Path parameter, as the names after each separator; empty when absent
MkdirPaths ==
    {<<>>, <<"a">>, <<"b">>, <<"a", "b">>, <<"b", "a">>, <<"b", "b">>,
     <<"a", "b", "a">>, <<"b", "a", "b">>, <<"a", "f">>, <<"a", "f", "b">>}
RecursiveParams == {"", "true", "false"}
MkdirNames == {"", "b"}
MkdirDirIDs == {RootDirID, "d1", "d2"}

\* the document named name in the directory parent, or "" when there is none
ChildNamed(ns, parent, name) ==
    LET found == {m \in TreeIDs : InTree(ns, m) /\ ns[m].dir_id = parent /\ ns[m].name = name}
    IN IF found = {} THEN "" ELSE CHOOSE m \in found : TRUE

\* the path resolver: the identifier of the document at the path, from the
\* directory at, or "" when a segment is missing or crosses a file
RECURSIVE Resolve(_, _, _)
Resolve(ns, at, path) ==
    IF path = <<>> THEN at
    ELSE IF ~IsDir(ns, at) THEN ""
    ELSE LET m == ChildNamed(ns, at, Head(path))
         IN IF m = "" THEN "" ELSE Resolve(ns, m, Tail(path))

FreeTreeIDs(ns) == {m \in TreeIDs : ns[m] = NoDoc}

\* vfs.NewDirDoc and vfs.CreateDir: the directory name is inserted under
\* dirID, if the name is legal, the parent a directory and the name free
CreateDir(ns, name, dirID) ==
    LET e == IF name = "" THEN ErrIllegalFilename
             ELSE IF ~IsDir(ns, dirID) THEN ErrParentDoesNotExist
             ELSE IF ChildNamed(ns, dirID, name) # "" THEN ErrExist
             ELSE Nil
        id == CHOOSE m \in FreeTreeIDs(ns) : TRUE
    IN IF e # Nil THEN [ns |-> ns, id |-> "", err |-> e]
       ELSE [ns |-> [ns EXCEPT ![id] = DirDoc(name, dirID, Append(PathOf(ns, dirID), name))],
             id |-> id, err |-> Nil]

\* vfs.Mkdir: the parent of the path must be there
Mkdir(ns, path) ==
    LET parent == Resolve(ns, RootDirID, SubSeq(path, 1, Len(path) - 1))
    IN IF parent = "" THEN [ns |-> ns, id |-> "", err |-> ErrParentDoesNotExist]
       ELSE CreateDir(ns, path[Len(path)], parent)

\* vfs.MkdirAll: the directories of the path that are missing are inserted
\* from the top, each as CreateDir does; the table is left as it was when
\* one of them fails
RECURSIVE MkdirAllFrom(_, _, _, _)
MkdirAllFrom(ns0, ns, at, path) ==
    IF path = <<>> THEN [ns |-> ns, id |-> at, err |-> Nil]
    ELSE LET m == ChildNamed(ns, at, Head(path))
         IN IF m # "" /\ IsDir(ns, m) THEN MkdirAllFrom(ns0, ns, m, Tail(path))
            ELSE LET made == CreateDir(ns, Head(path), at)
                 IN IF made.err # Nil THEN [ns |-> ns0, id |-> "", err |-> made.err]
                    ELSE MkdirAllFrom(ns0, made.ns, made.id, Tail(path))

MkdirAll(ns, path) == MkdirAllFrom(ns, ns, RootDirID, path)

\* the number of directories MkdirAll has to insert for the path
RECURSIVE MissingDirs(_, _, _)
MissingDirs(ns, at, path) ==
    IF path = <<>> THEN 0
    ELSE LET m == IF at = "" THEN "" ELSE ChildNamed(ns, at, Head(path))
         IN IF m # "" /\ IsDir(ns, m) THEN MissingDirs(ns, m, Tail(path))
            ELSE Len(path)

\* a handler that creates the ancestors whatever the Recursive parameter
createDirByPathAll(ns, path, recursive) == MkdirAll(ns, path)

\* createDirHandler with a Path parameter
createDirByPath(ns, path, recursive) ==
    IF recursive = "true" THEN MkdirAll(ns, path) ELSE Mkdir(ns, path)

\* createDirHandler, called by CreationHandler for the directory type
createDirHandler(name, dirID, path, recursive) ==
    /\ tres.n < MaxTreeOps
    /\ Cardinality(FreeTreeIDs(nodes)) >= IF path = <<>> THEN 1
                                           ELSE MissingDirs(nodes, RootDirID, path)
    /\ LET made == IF path # <<>> THEN createDirByPath(nodes, path, recursive)
                   ELSE CreateDir(nodes, name, dirID)
           op == IF path = <<>> THEN "createdir"
                 ELSE IF recursive = "true" THEN "mkdirall" ELSE "mkdir"
       IN /\ nodes' = made.ns
          /\ tres' = [TreeReturn(op, made.id, made.err) EXCEPT
                         !.path = path,
                         !.name = IF path = <<>> THEN name ELSE "",
                         !.dir = IF path = <<>> THEN dirID ELSE ""]
    /\ UNCHANGED <<nblobs, anchors>>

NextMkdir ==
    \/ \E name \in MkdirNames, dirID \in MkdirDirIDs, path \in MkdirPaths,
          recursive \in RecursiveParams :
            createDirHandler(name, dirID, path, recursive) /\ UNCHANGED <<filesVars, tenantVars, downloadVars, callVars, secureVars>>
    \/ \E id \in TreeIDs : TrashDoc(id) /\ UNCHANGED <<anchors, filesVars, tenantVars, downloadVars, callVars, secureVars>>

(***************************************************************************)
(* The download store, as its tests use it.                                *)
(***************************************************************************)
\* the time-to-live of an entry, in ticks of the clock
downloadStoreTTL == 2

\* the tests look at the store at once and after twice the time-to-live
MaxClock == 2 * downloadStoreTTL + 1

Domains == {"alice.cozycloud.local", "bob.cozycloud.local"}
DownloadKeys == {"key1", "key2"}
FilePaths == {"/test/random/path.txt"}
Archives == {[Name |-> "test", Files |-> <<"/archive/foo.jpg", "/archive/bar">>]}

\* an entry of the store, or none under that key; the keys are secrets drawn
\* anew for every entry
NoEntry == [kind |-> "none"]
Entry(kind, domain, val, at) == [kind |-> kind, domain |-> domain, val |-> val, at |-> at]

\* a call on the store: its result is val (empty for the zero value) and err
NoCall == [op |-> "none", domain |-> "", key |-> "", val |-> <<>>, err |-> Nil, at |-> 0]

InitDownload ==
    /\ dstore = [k \in DownloadKeys |-> NoEntry]
    /\ now = 0
    /\ dresp = NoCall

FreeDownloadKeys == {k \in DownloadKeys : dstore[k] = NoEntry}

\* a store that finds an entry by its key alone
OwnedByAnyone(e, domain) == TRUE

\* the entries are kept by domain and key
OwnedBy(e, domain) == e.domain = domain

\* a store whose entries stay
ExpiredNever(e, t) == FALSE

\* the entry is older than the time-to-live; at the very tick the
\* time-to-live ends either answer can come
Expired(e, t) == t - e.at > downloadStoreTTL
ExpiringNow(e, t) == t - e.at = downloadStoreTTL

\* store.AddFile, store.AddArchive
Add(kind, domain, val) ==
    /\ FreeDownloadKeys # {}
    /\ LET key == CHOOSE k \in FreeDownloadKeys : TRUE
       IN /\ dstore' = [dstore EXCEPT ![key] = Entry(kind, domain, val, now)]
          /\ dresp' = [op |-> IF kind = "file" THEN "AddFile" ELSE "AddArchive", domain |-> domain, key |-> key, val |-> <<>>,
                       err |-> Nil, at |-> now]
    /\ UNCHANGED now

AddFile(domain, path) == Add("file", domain, path)
AddArchive(domain, archive) == Add("archive", domain, archive)

\* store.GetFile, store.GetArchive: the value of the entry of that kind kept
\* under the domain and the key, the zero value when there is none or it is
\* expired, and no error
Get(kind, domain, key) ==
    /\ LET e == dstore[key]
           found == e.kind = kind /\ OwnedBy(e, domain) /\ ~Expired(e, now)
       IN \E gone \in BOOLEAN :
            /\ gone => found /\ ExpiringNow(e, now)
            /\ dresp' = [op |-> IF kind = "file" THEN "GetFile" ELSE "GetArchive", domain |-> domain, key |-> key,
                         val |-> IF found /\ ~gone THEN <<e.val>> ELSE <<>>,
                         err |-> Nil, at |-> now]
    /\ UNCHANGED <<dstore, now>>

GetFile(domain, key) == Get("file", domain, key)
GetArchive(domain, key) == Get("archive", domain, key)

\* time.Sleep: the clock moves on
Sleep ==
    /\ now < MaxClock
    /\ now' = now + 1
    /\ UNCHANGED <<dstore, dresp>>

NextDownload ==
    \/ \E domain \in Domains, path \in FilePaths :
          AddFile(domain, path) /\ UNCHANGED <<filesVars, treeVars, tenantVars, callVars, secureVars>>
    \/ \E domain \in Domains, archive \in Archives :
          AddArchive(domain, archive) /\ UNCHANGED <<filesVars, treeVars, tenantVars, callVars, secureVars>>
    \/ \E domain \in Domains, key \in DownloadKeys :
          GetFile(domain, key) /\ UNCHANGED <<filesVars, treeVars, tenantVars, callVars, secureVars>>
    \/ \E domain \in Domains, key \in DownloadKeys :
          GetArchive(domain, key) /\ UNCHANGED <<filesVars, treeVars, tenantVars, callVars, secureVars>>
    \/ Sleep /\ UNCHANGED <<filesVars, treeVars, tenantVars, callVars, secureVars>>

(***************************************************************************)
(* The functions of the handlers, called on the inputs of the model.       *)
(***************************************************************************)
InitCall == call = [fn |-> "none"]

\* a call leaves the stores as they are
StoresIdle == UNCHANGED <<filesVars, treeVars, tenantVars, downloadVars, secureVars>>

\* fileDocFromReq on the headers and parameters of an upload
CallFileDocFromReq ==
    \E name \in NameParams, dirID \in DirParams,
       contentLength \in ContentLengthHeaders, md5Str \in MD5Headers :
        call' = [fn |-> "fileDocFromReq", name |-> name, dirID |-> dirID,
                 contentLength |-> contentLength, md5Str |-> md5Str,
                 out |-> fileDocFromReq(name, dirID, contentLength, md5Str)]

\* checkIfMatch on a header, a rev parameter and the revision of a document
CallCheckIfMatch ==
    \E ifMatch \in RevParams, revQuery \in RevParams, rev \in RevParams \ {""} :
        call' = [fn |-> "checkIfMatch", ifMatch |-> ifMatch, revQuery |-> revQuery,
                 rev |-> rev, out |-> checkIfMatch(ifMatch, revQuery, rev)]

\* the error kinds of the taxonomy, as the engine returns them
TaxonomyErrors ==
    {ErrNotExist, ErrExist, ErrConflict, ErrIllegalFilename, ErrNonAbsolutePath,
     ErrForbiddenDocMove, ErrDirNotEmpty, ErrContentLengthMismatch, ErrInvalidHash,
     ErrFileInTrash, ErrParentDoesNotExist}

\* the errors a handler can hold: those of the engine, of the handlers, of
\* the store and of the streams, and the structured errors made of them
GoErrors ==
    TaxonomyErrors \cup {ErrDocTypeInvalid, ErrIllegalTime, ErrUnexpectedEOF,
                         ErrBlobWrite, CouchError}
WrapInputs == GoErrors \cup {wrapVfsError(e) : e \in GoErrors}

\* wrapVfsError on an error, and again on what it returned
CallWrapVfsError ==
    \E err \in WrapInputs :
        call' = [fn |-> "wrapVfsError", err |-> err, out |-> wrapVfsError(err),
                 again |-> wrapVfsError(wrapVfsError(err))]

(***************************************************************************)
(* The Secure middleware: the Content-Security-Policy of the responses.    *)
(***************************************************************************)
\* the longest source list of a configuration
MaxSources == 2

CSPSrcSelf == "CSPSrcSelf"
CSPSrcData == "CSPSrcData"
CSPSrcBlob == "CSPSrcBlob"
CSPSrcParent == "CSPSrcParent"
CSPSrcWS == "CSPSrcWS"
CSPSrcSiblings == "CSPSrcSiblings"
CSPSrcAny == "CSPSrcAny"
CSPUnsafeInline == "CSPUnsafeInline"
CSPWhitelist == "CSPWhitelist"

\* the sources a configuration lists
ConfSources == {CSPSrcSelf, CSPSrcParent, CSPUnsafeInline}
SourceLists == UNION {[1..n -> ConfSources] : n \in 0..MaxSources}

\* a whitelist is a string of fields separated by spaces: strings.Fields
\* gives its fields, strings.Join the string of some fields, "" for none
Whitelists ==
    {<<>>, <<"%zz">>, <<"http://a.example", "%zz", "https://b.example/x">>}

\* url.Parse on a field
urlParse(s) ==
    CASE s = "http://a.example" ->
            [ok |-> TRUE, Scheme |-> "http", Host |-> "a.example", Path |-> ""]
      [] s = "https://b.example/x" ->
            [ok |-> TRUE, Scheme |-> "https", Host |-> "b.example", Path |-> "/x"]
      [] OTHER -> [ok |-> FALSE, Scheme |-> "", Host |-> "", Path |-> ""]

\* (*url.URL).String
urlString(u) ==
    CASE u.Host = "a.example" /\ u.Scheme = "http" /\ u.Path = "" -> "http://a.example"
      [] u.Host = "a.example" /\ u.Scheme = "https" /\ u.Path = "" -> "https://a.example"
      [] u.Host = "a.example" /\ u.Scheme = "http" /\ u.Path = "/" -> "http://a.example/"
      [] u.Host = "a.example" /\ u.Scheme = "https" /\ u.Path = "/" -> "https://a.example/"
      [] u.Host = "b.example" /\ u.Scheme = "https" /\ u.Path = "/x" -> "https://b.example/x"
      [] OTHER -> ""

\* the fields of the whitelist that parse, with the scheme https and a path
RECURSIVE whitelistFilter(_)
whitelistFilter(fields) ==
    IF fields = <<>> THEN <<>>
    ELSE LET u == urlParse(Head(fields))
             rest == whitelistFilter(Tail(fields))
         IN IF ~u.ok THEN rest
            ELSE <<urlString([u EXCEPT !.Scheme = "https",
                                       !.Path = IF @ = "" THEN "/" ELSE @])>>
                     \o rest

\* a loop that keeps every source, seen before or not
sourcesKept(unique, sources) == unique \o sources

\* the loop that keeps a source when it is not yet among those kept
RECURSIVE sourcesUnique(_, _)
sourcesUnique(unique, sources) ==
    IF sources = <<>> THEN unique
    ELSE sourcesUnique(IF \E i \in 1..Len(unique) : unique[i] = Head(sources)
                       THEN unique
                       ELSE Append(unique, Head(sources)),
                       Tail(sources))

\* validCSPList: the source list and the whitelist of a directive
validCSPList(sources, defaults, whitelist) ==
    LET filter == whitelistFilter(whitelist)
        marked == IF Len(filter) > 0 THEN Append(sources, CSPWhitelist)
                  ELSE sources
    IN IF Len(marked) = 0 /\ filter = <<>>
       THEN [sources |-> <<>>, whitelist |-> <<>>]
       ELSE [sources |-> sourcesUnique(<<>>, marked \o defaults),
             whitelist |-> filter]

\* the source token of a source, as the words of the token
cspToken(src, cspWhitelist, isSecure) ==
    CASE src = CSPSrcSelf -> <<"'self'">>
      [] src = CSPSrcData -> <<"data:">>
      [] src = CSPSrcBlob -> <<"blob:">>
      [] src = CSPSrcParent ->
            IF isSecure THEN <<"https://parent">> ELSE <<"http://parent">>
      [] src = CSPSrcWS ->
            IF isSecure THEN <<"wss://parent">> ELSE <<"ws://parent">>
      [] src = CSPSrcSiblings ->
            IF isSecure THEN <<"https://siblings">> ELSE <<"http://siblings">>
      [] src = CSPSrcAny -> <<"*">>
      [] src = CSPUnsafeInline -> <<"'unsafe-inline'">>
      [] src = CSPWhitelist -> cspWhitelist
      [] OTHER -> <<>>

\* makeCSPHeader: the directive and its source tokens
makeCSPHeader(header, cspWhitelist, sources, isSecure) ==
    [header |-> header,
     tokens |-> [i \in 1..Len(sources) |->
                    cspToken(sources[i], cspWhitelist, isSecure)]]

SecureConfig(defaultSrc, defaultWhitelist, scriptSrc, scriptWhitelist, maxAge) ==
    [HSTSMaxAge |-> maxAge,
     CSPDefaultSrc |-> defaultSrc,
     CSPDefaultSrcWhitelist |-> defaultWhitelist,
     CSPScriptSrc |-> scriptSrc,
     CSPScriptSrcWhitelist |-> scriptWhitelist]

SecureConfigs ==
    {SecureConfig(ds, dw, ss, sw, age) :
        ds \in SourceLists, dw \in Whitelists,
        ss \in SourceLists, sw \in Whitelists, age \in {0, 1}}

NoHeaders == [set |-> FALSE]
NoSecure == [pc |-> "none"]

\* no Secure middleware
InitNoSecure == csp = NoSecure

\* a configuration handed to Secure
InitSecure ==
    csp \in {[pc |-> "given", given |-> conf, conf |-> conf, headers |-> NoHeaders] :
                conf \in SecureConfigs}

\* Secure: the configuration normalized, default-src first
Secure ==
    /\ csp.pc = "given"
    /\ LET conf == csp.conf
           def == validCSPList(conf.CSPDefaultSrc, conf.CSPDefaultSrc,
                               conf.CSPDefaultSrcWhitelist)
           script == validCSPList(conf.CSPScriptSrc, def.sources,
                                  conf.CSPScriptSrcWhitelist)
       IN csp' = [csp EXCEPT
                    !.pc = "ready",
                    !.conf = [conf EXCEPT
                                !.CSPDefaultSrc = def.sources,
                                !.CSPDefaultSrcWhitelist = def.whitelist,
                                !.CSPScriptSrc = script.sources,
                                !.CSPScriptSrcWhitelist = script.whitelist]]

\* the middleware on a request: the headers of its response
SecureRequest(isSecure) ==
    /\ csp.pc \in {"ready", "served"}
    /\ LET conf == csp.conf
           default == IF Len(conf.CSPDefaultSrc) > 0
                      THEN <<makeCSPHeader("default-src", conf.CSPDefaultSrcWhitelist,
                                           conf.CSPDefaultSrc, isSecure)>>
                      ELSE <<>>
           script == IF Len(conf.CSPScriptSrc) > 0
                     THEN <<makeCSPHeader("script-src", conf.CSPScriptSrcWhitelist,
                                          conf.CSPScriptSrc, isSecure)>>
                     ELSE <<>>
       IN csp' = [csp EXCEPT
                    !.pc = "served",
                    !.headers = [set |-> TRUE,
                                 hsts |-> isSecure /\ conf.HSTSMaxAge > 0,
                                 csp |-> default \o script,
                                 nosniff |-> TRUE]]

(***************************************************************************)
(* The error handlers of the web layer.                                    *)
(***************************************************************************)
\* an error given to ErrorHandler: its dynamic type, the status it carries
\* (Code of an *echo.HTTPError, StatusCode of a *couchdb.Error, Status of a
\* *jsonapi.Error) and the error an *echo.HTTPError wraps
HandlerErr(kind, status, inner) == [kind |-> kind, status |-> status, inner |-> inner]
HandlerErrors ==
    {HandlerErr("echo.HTTPError", 404, ""),
     HandlerErr("echo.HTTPError", 401, "error"),
     HandlerErr("echo.HTTPError", 500, "instance.ErrNotFound"),
     HandlerErr("os.ErrExist", 0, ""),
     HandlerErr("os.ErrNotExist", 0, ""),
     HandlerErr("couchdb.Error", 409, ""),
     HandlerErr("jsonapi.Error", 412, ""),
     HandlerErr("error", 0, "")}
Methods == {"GET", "HEAD", "POST"}
\* the Accept header, as the media types it lists
AcceptHeaders ==
    {<<>>, <<"text/html">>, <<"application/json">>, <<"text/html", "application/json">>,
     <<"image/png">>}

\* strings.Contains(accept, mime)
AcceptContains(accept, mime) == \E i \in 1..Len(accept) : accept[i] = mime

\* a response written through the echo context: the call that wrote it, its
\* status and whether it has a body
Response(via, status, body) == [via |-> via, status |-> status, body |-> body]

\* the variable je of ErrorHandler: the status of the jsonapi error, or 0
\* when je is nil
JsonapiStatus(err) ==
    CASE err.kind = "echo.HTTPError" -> 0
      [] err.kind = "os.ErrExist" -> 409
      [] err.kind = "os.ErrNotExist" -> 404
      [] err.kind \in {"couchdb.Error", "jsonapi.Error"} -> err.status
      [] OTHER -> 500

\* HTMLErrorHandler: the response it writes
HTMLErrorHandler(err, method, accept) ==
    LET isHTTP == err.kind = "echo.HTTPError"
        code == IF isHTTP THEN err.status ELSE 500
        cause == IF isHTTP /\ err.inner # "" THEN err.inner
                 ELSE IF isHTTP THEN "echo.HTTPError" ELSE err.kind
        status == IF cause = "instance.ErrNotFound" THEN 404 ELSE code
    IN IF method = "HEAD" THEN <<Response("NoContent", status, FALSE)>>
       ELSE IF AcceptContains(accept, "application/json")
       THEN <<Response("JSON", status, TRUE)>>
       ELSE IF AcceptContains(accept, "text/html")
       THEN <<Response("Render", status, TRUE)>>
       ELSE <<Response("String", status, TRUE)>>

\* ErrorHandler once the response is known not to be committed
ErrorResponse(err, method, accept) ==
    IF JsonapiStatus(err) # 0
    THEN IF method = "HEAD"
         THEN <<Response("NoContent", JsonapiStatus(err), FALSE)>>
         ELSE <<Response("DataError", JsonapiStatus(err), TRUE)>>
    ELSE HTMLErrorHandler(err, method, accept)

\* an ErrorHandler that does not look at res.Committed
ErrorHandlerUnchecked(err, method, accept, committed) ==
    ErrorResponse(err, method, accept)

\* ErrorHandler: the responses it writes
ErrorHandler(err, method, accept, committed) ==
    IF committed THEN <<>> ELSE ErrorResponse(err, method, accept)

\* the lines ErrorHandler and HTMLErrorHandler log
ErrorLogs(err, committed, dev) ==
    (IF dev THEN 1 ELSE 0)
        + (IF ~committed /\ JsonapiStatus(err) = 0 THEN 1 ELSE 0)

CallErrorHandler ==
    \E err \in HandlerErrors, method \in Methods, accept \in AcceptHeaders,
       committed \in BOOLEAN, dev \in BOOLEAN :
        call' = [fn |-> "ErrorHandler", err |-> err, method |-> method,
                 accept |-> accept, committed |-> committed, dev |-> dev,
                 logs |-> ErrorLogs(err, committed, dev),
                 out |-> ErrorHandler(err, method, accept, committed)]

\* a request on the files leaves the rest as it is
OthersIdle == UNCHANGED <<treeVars, tenantVars, downloadVars, callVars, secureVars>>

Init == InitFiles /\ InitTree /\ InitTenants /\ InitDownload /\ InitCall /\ InitNoSecure

Next ==
    \E r \in Reqs :
        \/ Sequential(r) /\ StartCreate(r) /\ OthersIdle
        \/ Sequential(r) /\ StartOverwrite(r) /\ OthersIdle
        \/ Sequential(r) /\ StartPatch(r) /\ OthersIdle
        \/ Sequential(r) /\ StartTrash(r) /\ OthersIdle
        \/ GetDoc(r) /\ OthersIdle
        \/ Prepare(r, ContentLengthHeaders, MD5Headers) /\ OthersIdle
        \/ Check(r) /\ OthersIdle
        \/ Open(r) /\ OthersIdle
        \/ CopyByte(r, Bytes) /\ OthersIdle
        \/ CopyEOF(r) /\ OthersIdle
        \/ CopyReadError(r) /\ OthersIdle
        \/ CopyWriteError(r) /\ OthersIdle
        \/ CloseVerify(r) /\ OthersIdle
        \/ CloseCommit(r) /\ OthersIdle
        \/ CloseCleanup(r) /\ OthersIdle
        \/ Modify(r) /\ OthersIdle
        \/ ModifyCommit(r) /\ OthersIdle
        \/ Trash(r) /\ OthersIdle
        \/ Return(r) /\ OthersIdle

\* one request at a time, with every header of the model
Spec == Init /\ [][Next]_vars

\* the inputs of overlapping uploads: bodies of one byte value, no declared
\* length or one byte, no declared digest or that of the one byte body
ConcBytes == {1}
ConcLengthHeaders == {<<>>, <<"1">>}
ConcMD5Headers == {NoMD5Header, MD5Header(TRUE, TRUE, MD5Sum(<<1>>))}

NextConc ==
    \E r \in Reqs :
        \/ StartCreate(r) /\ OthersIdle
        \/ StartOverwrite(r) /\ OthersIdle
        \/ StartPatch(r) /\ OthersIdle
        \/ StartTrash(r) /\ OthersIdle
        \/ GetDoc(r) /\ OthersIdle
        \/ Prepare(r, ConcLengthHeaders, ConcMD5Headers) /\ OthersIdle
        \/ Check(r) /\ OthersIdle
        \/ Open(r) /\ OthersIdle
        \/ CopyByte(r, ConcBytes) /\ OthersIdle
        \/ CopyEOF(r) /\ OthersIdle
        \/ CopyReadError(r) /\ OthersIdle
        \/ CopyWriteError(r) /\ OthersIdle
        \/ CloseVerify(r) /\ OthersIdle
        \/ CloseCommit(r) /\ OthersIdle
        \/ CloseCleanup(r) /\ OthersIdle
        \/ Modify(r) /\ OthersIdle
        \/ ModifyCommit(r) /\ OthersIdle
        \/ Trash(r) /\ OthersIdle
        \/ Return(r) /\ OthersIdle

\* two requests in any interleaving of their steps
SpecConc == Init /\ [][NextConc]_vars

\* requests on the directory tree, one at a time
\* a download of a file while it is overwritten
NextRead ==
    \E r \in Reqs :
        \/ StartOverwrite(r) /\ OthersIdle
        \/ StartRead(r) /\ OthersIdle
        \/ GetDoc(r) /\ OthersIdle
        \/ Prepare(r, ConcLengthHeaders, ConcMD5Headers) /\ OthersIdle
        \/ Check(r) /\ OthersIdle
        \/ Open(r) /\ OthersIdle
        \/ CopyByte(r, ConcBytes) /\ OthersIdle
        \/ CopyEOF(r) /\ OthersIdle
        \/ CopyReadError(r) /\ OthersIdle
        \/ CopyWriteError(r) /\ OthersIdle
        \/ CloseVerify(r) /\ OthersIdle
        \/ CloseCommit(r) /\ OthersIdle
        \/ CloseCleanup(r) /\ OthersIdle
        \/ ServeOpen(r) /\ OthersIdle
        \/ ServeByte(r) /\ OthersIdle
        \/ ServeReadError(r) /\ OthersIdle
        \/ ServeEOF(r) /\ OthersIdle
        \/ Return(r) /\ OthersIdle

SpecRead == Init /\ [][NextRead]_vars

SpecTree == Init /\ [][NextTree]_vars

\* requests on the tree with the root and the trash root among the targets
SpecAnchors == Init /\ [][NextAnchors]_vars

\* the Secure middleware on every configuration, then on requests
NextSecure ==
    \/ Secure /\ UNCHANGED <<filesVars, treeVars, tenantVars, downloadVars, callVars>>
    \/ \E isSecure \in BOOLEAN :
          SecureRequest(isSecure) /\ UNCHANGED <<filesVars, treeVars, tenantVars, downloadVars, callVars>>

InitSecureConf == InitFiles /\ InitTree /\ InitTenants /\ InitDownload /\ InitCall /\ InitSecure
SpecSecure == InitSecureConf /\ [][NextSecure]_vars

\* the error handler on every error, method and state of the response
NextErrors ==
    \/ CallErrorHandler /\ StoresIdle

SpecErrors == Init /\ [][NextErrors]_vars

\* creations of every type, one request at a time
NextCreation ==
    \E r \in Reqs :
        \/ Sequential(r) /\ StartCreation(r) /\ OthersIdle
        \/ Prepare(r, ContentLengthHeaders, MD5Headers) /\ OthersIdle
        \/ Open(r) /\ OthersIdle
        \/ CopyByte(r, Bytes) /\ OthersIdle
        \/ CopyEOF(r) /\ OthersIdle
        \/ CopyReadError(r) /\ OthersIdle
        \/ CopyWriteError(r) /\ OthersIdle
        \/ CloseVerify(r) /\ OthersIdle
        \/ CloseCommit(r) /\ OthersIdle
        \/ Return(r) /\ OthersIdle

SpecCreation == Init /\ [][NextCreation]_vars

\* the parsing of the requests of the upload handlers
NextRequest ==
    \/ CallFileDocFromReq /\ StoresIdle
    \/ CallCheckIfMatch /\ StoresIdle
    \/ CallWrapVfsError /\ StoresIdle

SpecRequest == Init /\ [][NextRequest]_vars

\* creations of directories in a tree that has room for them
InitMkdir == InitFiles /\ InitMkdirTree /\ InitTenants /\ InitDownload /\ InitCall /\ InitNoSecure
SpecMkdir == InitMkdir /\ [][NextMkdir]_vars

\* requests of two tenants, one at a time
SpecTenants == Init /\ [][NextTenants]_vars

\* calls on the download store as time passes
SpecDownload == Init /\ [][NextDownload]_vars

(***************************************************************************)
(* The claims.                                                             *)
(***************************************************************************)
Uploads == {"create", "overwrite"}

\* the errors of a stream that failed or of a content that did not verify
UploadFailures ==
    {ErrUnexpectedEOF, ErrBlobWrite, ErrContentLengthMismatch, ErrInvalidHash}

\* the request has been through checkIfMatch
Checked(rq) == rq.pc \notin {"idle", "load", "prepare", "check", "gone"}

\* an overwrite whose expected revision is not that of the loaded document
StaleOverwrite(rq) ==
    /\ rq.kind = "overwrite"
    /\ Checked(rq)
    /\ rq.wantedRev # ""
    /\ rq.wantedRev # Rev(rq.olddoc)

\* every persisted FileDoc is bound to a blob that exists, was verified and
\* has the length and the digest the document states
BoundBlobsVerified ==
    \A d \in DocIDs :
        docs[d] # NoDoc =>
            /\ docs[d].blob \in BlobKeys
            /\ blobs[docs[d].blob] # NoBlob
            /\ blobs[docs[d].blob].state = "committed"
            /\ docs[d].size = Len(blobs[docs[d].blob].data)
            /\ docs[d].md5sum = <<MD5Sum(blobs[docs[d].blob].data)>>

\* a step that commits an upload finds its blob verified and leaves the
\* superseded blob in place; the step that ends the cleanup of an overwrite
\* comes after its commit, removes the superseded blob and no document
UploadOrder ==
    \A r \in Reqs :
        /\ (req[r].kind \in Uploads /\ ~req[r].committed /\ req'[r].committed) =>
               /\ req[r].pc = "commit"
               /\ blobs[req[r].file].state = "committed"
               /\ blobs' = blobs
               /\ docs'[req[r].id].blob = req[r].file
               /\ req[r].kind = "overwrite" => blobs[req[r].olddoc.blob] # NoBlob
        /\ (req[r].pc = "cleanup" /\ req'[r].pc # "cleanup") =>
               /\ req[r].committed
               /\ blobs'[req[r].olddoc.blob] = NoBlob
               /\ docs' = docs

C2_NoDocAfterDisconnect ==
    \A r \in Reqs :
        (req[r].kind = "create" /\ req[r].pc = "done" /\ req[r].err = ErrUnexpectedEOF) =>
            /\ ~req[r].committed
            /\ docs[req[r].id] = NoDoc
            /\ blobs[req[r].file] = NoBlob

\* two mutating requests on the same document that loaded the same revision
SameBase(r, q) ==
    /\ r # q
    /\ req[r].kind \in {"overwrite", "patch"}
    /\ req[q].kind \in {"overwrite", "patch"}
    /\ req[r].olddoc # NoDoc
    /\ req[q].olddoc # NoDoc
    /\ req[r].id = req[q].id
    /\ req[r].olddoc.rev = req[q].olddoc.rev

\* the error of the engine call that wrote to the document store
WriteError(rq) == IF rq.kind = "overwrite" THEN rq.cerr ELSE rq.err

\* C3: of two overlapping mutating requests (overwrite or patch) on one
\* document that both observed the same revision at most one commits; the
\* write of the other is rejected with Conflict, and no request writes to
\* the store more than once
C3_AtMostOneCommits ==
    \A r, q \in Reqs :
        SameBase(r, q) =>
            /\ ~(req[r].committed /\ req[q].committed)
            /\ req[r].writes <= 1
            /\ (req[r].committed /\ req[q].writes > 0) =>
                   /\ req[q].pc = "done"
                   /\ WriteError(req[q]) = ErrConflict
                   /\ req[q].kind = "patch" =>
                          req[q].ret = JSONAPIError("Conflict", "", ErrConflict)

\* one of two overlapping requests committed and the write of the other
\* was rejected
C3_Witness ==
    \E r, q \in Reqs :
        /\ SameBase(r, q)
        /\ req[r].committed
        /\ req[q].writes = 1
        /\ ~req[q].committed
        /\ req[r].kind # req[q].kind

C5_StaleRejectedBeforeStream ==
    \A r \in Reqs :
        StaleOverwrite(req[r]) =>
            /\ req[r].pc = "done"
            /\ req[r].ret # Nil
            /\ req[r].file = ""
            /\ req[r].nread = 0
            /\ req[r].writes = 0
            /\ \A k \in BlobKeys : blobs[k] # NoBlob => blobs[k].state = "committed"
            /\ docs[req[r].id] = req[r].olddoc
            /\ blobs[req[r].olddoc.blob] # NoBlob

\* an overwrite of the stored file was rejected for the revision given in
\* the rev parameter or the header
C5_Witness ==
    \E r \in Reqs :
        /\ StaleOverwrite(req[r])
        /\ req[r].ret.src = "If-Match"
        /\ req[r].id = DocID(1)
        /\ docs = InitDocs
        /\ blobs = InitBlobs

\* C6: a creation whose stream failed, or whose length or digest did not
\* match, leaves the documents and the blobs as they were before it
C6_FailedCreateLeavesNothing ==
    \A r \in Reqs :
        (/\ req[r].kind = "create"
         /\ req[r].pc = "done"
         /\ req[r].err \in UploadFailures
         /\ \A q \in Reqs \ {r} : req[q].pc = "idle") =>
            /\ docs = InitDocs
            /\ blobs = InitBlobs

\* C7: an overwrite whose stream failed, or whose length or digest did not
\* match, has discarded the new blob and left the old document and the old
\* blob as they were
C7_FailedOverwriteLeavesOld ==
    \A r \in Reqs :
        (/\ req[r].kind = "overwrite"
         /\ req[r].pc = "done"
         /\ req[r].err \in UploadFailures) =>
            /\ ~req[r].committed
            /\ blobs[req[r].file] = NoBlob
            /\ docs[req[r].id] = req[r].olddoc
            /\ blobs[req[r].olddoc.blob] # NoBlob

\* a validation or precondition failure of the taxonomy
ValidationFailure(e) == e.cls \in {"vfs", "os", "jsonapi"}

\* C8: every validation or precondition failure of a create or an
\* overwrite is returned as a structured error that is not the internal
\* server error, with Content-MD5 for a digest mismatch and Content-Length
\* for a length mismatch
C8_FailuresAreTyped ==
    \A r \in Reqs :
        (/\ req[r].kind \in Uploads
         /\ req[r].pc = "done"
         /\ ValidationFailure(req[r].err)) =>
            /\ req[r].ret.cls = "jsonapi"
            /\ req[r].ret.name # "InternalServerError"
            /\ req[r].err = ErrInvalidHash => req[r].ret.src = "Content-MD5"
            /\ req[r].err = ErrContentLengthMismatch => req[r].ret.src = "Content-Length"

\* the step of a creation out of vfs.CreateFile, and out of the commit
CreateSteps ==
    \A r \in Reqs :
        /\ (/\ req[r].kind = "create"
            /\ req[r].pc = "open"
            /\ req'[r].pc # "open"
            /\ DirExists(req[r].dir)) =>
               IF ActiveSibling(req[r].name, req[r].dir)
               THEN /\ req'[r].pc = "done"
                    /\ req'[r].ret = JSONAPIError("Conflict", "", ErrExist)
                    /\ req'[r].file = ""
                    /\ docs' = docs
                    /\ blobs' = blobs
               ELSE req'[r].pc = "copy"
        /\ (/\ req[r].kind = "create"
            /\ req[r].pc = "commit"
            /\ req[r].err = Nil
            /\ req'[r].pc # "commit") =>
               /\ req'[r].status = "201 Created"
               /\ docs'[req[r].id] # NoDoc
               /\ docs'[req[r].id].name = req[r].name
               /\ docs'[req[r].id].dir_id = req[r].dir
               /\ ~docs'[req[r].id].trashed

\* C9: a creation whose name and parent are those of an active sibling
\* fails with Conflict and creates nothing; when no active sibling has them
\* (the first one was trashed) the creation passes and, its upload
\* verified, creates the document
C9_ConflictUnlessTrashed == [][CreateSteps]_vars

\* a document was created with the name and parent of a trashed one
C9_Witness ==
    \E r \in Reqs, d \in DocIDs :
        /\ req[r].kind = "create"
        /\ req[r].status = "201 Created"
        /\ docs[d] # NoDoc
        /\ docs[d].trashed
        /\ docs[d].name = req[r].name
        /\ docs[d].restore = req[r].dir
        /\ docs[req[r].id] # NoDoc

\* C10: no two non-trashed documents have the same name and parent
C10_UniqueActiveNames ==
    \A d, e \in DocIDs :
        (/\ d # e
         /\ docs[d] # NoDoc
         /\ docs[e] # NoDoc
         /\ ~docs[d].trashed
         /\ ~docs[e].trashed) =>
            ~(docs[d].name = docs[e].name /\ docs[d].dir_id = docs[e].dir_id)

\* every document of the tree reaches the root or the trash along its parents
TreeAcyclic ==
    \A m \in TreeIDs :
        InTree(nodes, m) =>
            \/ ChainHas(nodes, m, RootDirID, TreeDepth)
            \/ ChainHas(nodes, m, TrashDirID, TreeDepth)

\* the step of a patch that asks to move a directory under itself or under
\* one of its descendants
CycleRefused ==
    (/\ tres'.n = tres.n + 1
     /\ tres'.op = "patch"
     /\ InTree(nodes, tres'.id)
     /\ nodes[tres'.id].type = "dir"
     /\ tres'.dir \in Subtree(nodes, tres'.id)) =>
        /\ tres'.err = ErrForbiddenDocMove
        /\ tres'.ret = JSONAPIError("PreconditionFailed", "dir-id", ErrForbiddenDocMove)
        /\ nodes' = nodes
        /\ nblobs' = nblobs

\* C11: a patch that reparents a directory into itself or into one of its
\* descendants fails with ForbiddenDocMove and changes nothing; after any
\* sequence of patches, trashes and restores every document reaches the root
\* (or the trash root) along its parent references, without a cycle
C11_NoMoveIntoDescendant == []TreeAcyclic /\ [][CycleRefused]_vars

\* a move of a directory under one of its proper descendants was refused,
\* after an earlier patch went through
C11_Witness ==
    /\ tres.op = "patch"
    /\ tres.err = ErrForbiddenDocMove
    /\ tres.dir \in Subtree(nodes, tres.id) \ {tres.id}
    /\ nodes # InitNodes

\* the path of a document as its parent chain gives it
RECURSIVE ChainPath(_, _, _)
ChainPath(ns, id, fuel) ==
    IF id = RootDirID THEN <<>>
    ELSE IF id = TrashDirID THEN <<TrashDirName>>
    ELSE IF ~InTree(ns, id) \/ fuel = 0 THEN <<"orphaned">>
    ELSE Append(ChainPath(ns, ns[id].dir_id, fuel - 1), ns[id].name)

\* C12: after every successful rename or move of a directory, the
\* denormalized path of that directory and of every directory below it is
\* the concatenation of the names along its parent chain from the root
C12_PathsFollowParents ==
    (tres.op = "patch" /\ tres.err = Nil /\ nodes[tres.id].type = "dir") =>
        \A m \in Subtree(nodes, tres.id) :
            nodes[m].type = "dir" => nodes[m].path = ChainPath(nodes, m, TreeDepth)

\* /a was moved under /c and renamed, and /a/b followed
C12_Witness ==
    /\ tres.op = "patch"
    /\ tres.err = Nil
    /\ tres.id = "d1"
    /\ nodes["d1"].dir_id = "d3"
    /\ nodes["d2"].path = <<"c", "c", "b">>

\* the steps of a trash and of a restore, and what the steps in between leave
\* of a trashed document: its name, its restore parent and what is below it
\* (a restore may bring back a document that was trashed from below it)
TrashRestoreSteps ==
    /\ (tres'.n = tres.n + 1 /\ tres'.op = "trash" /\ tres'.err = Nil) =>
           /\ nodes'[tres'.id].trashed
           /\ nodes'[tres'.id].name = nodes[tres'.id].name
           /\ nodes'[tres'.id].restore = nodes[tres'.id].dir_id
           /\ Subtree(nodes', tres'.id) = Subtree(nodes, tres'.id)
           /\ \A m \in Subtree(nodes, tres'.id) :
                  Children(nodes', m) = Children(nodes, m)
    /\ \A m \in TreeIDs :
           (InTree(nodes, m) /\ nodes[m].trashed /\ InTree(nodes', m) /\ nodes'[m].trashed) =>
               /\ nodes'[m].name = nodes[m].name
               /\ nodes'[m].restore = nodes[m].restore
               /\ Subtree(nodes, m) \subseteq Subtree(nodes', m)
               /\ tres'.op # "restore" =>
                      /\ Subtree(nodes', m) = Subtree(nodes, m)
                      /\ \A k \in Subtree(nodes, m) :
                             Children(nodes', k) = Children(nodes, k)
    /\ (tres'.n = tres.n + 1 /\ tres'.op = "restore" /\ IsDir(nodes, nodes[tres'.id].restore)) =>
           IF TreeSibling(nodes, tres'.id, nodes[tres'.id].name, nodes[tres'.id].restore)
           THEN /\ tres'.ret = JSONAPIError("Conflict", "", ErrExist)
                /\ nodes' = nodes
                /\ nblobs' = nblobs
           ELSE /\ tres'.err = Nil
                /\ ~nodes'[tres'.id].trashed
                /\ nodes'[tres'.id].name = nodes[tres'.id].name
                /\ nodes'[tres'.id].dir_id = nodes[tres'.id].restore
                /\ Subtree(nodes', tres'.id) = Subtree(nodes, tres'.id)
                /\ \A m \in Subtree(nodes, tres'.id) :
                       Children(nodes', m) = Children(nodes, m)

\* a trash of a document followed at once by its restore gives the tree back,
\* the document under a later revision
TrashRestoreRoundTrip ==
    (tres.n = 2 /\ tres.op = "restore" /\ tres.err = Nil) =>
        /\ nblobs = [m \in TreeIDs |-> InitNodes[m].type = "file"]
        /\ \A m \in TreeIDs :
               nodes[m] = IF m = tres.id THEN [InitNodes[m] EXCEPT !.rev = nodes[m].rev]
                          ELSE InitNodes[m]

\* C13: trashing a directory that has children and then restoring it yields
\* the original name, parent and set of children; when another active
\* document took the original (name, parent) in between, the restore fails
\* with Conflict and the directory stays trashed
C13_TrashRestoreRoundTrip == []TrashRestoreRoundTrip /\ [][TrashRestoreSteps]_vars

\* /a, trashed with its children, lost its slot to /c renamed a, and its
\* restore was refused
C13_Witness ==
    /\ tres.op = "restore"
    /\ tres.id = "d1"
    /\ tres.ret.name = "Conflict"
    /\ nodes["d1"].trashed
    /\ Children(nodes, "d1") = {"d2", "f2"}
    /\ nodes["d3"].name = "a"

\* the files of the subtree of id
SubtreeFiles(ns, id) == {m \in Subtree(ns, id) : ns[m].type = "file"}

\* the step of a purge: a file whose blob is left keeps its document as it
\* was; when no blob of the subtree is left, no document of it is; nothing
\* outside the subtree changes
PurgeSteps ==
    (tres'.n = tres.n + 1 /\ tres'.op = "purge") =>
        LET sub == Subtree(nodes, tres'.id)
            files == SubtreeFiles(nodes, tres'.id)
        IN /\ \A f \in files : nblobs'[f] => nodes'[f] = nodes[f]
           /\ (\E f \in files : nblobs'[f]) => tres'.err # Nil
           /\ (\A f \in files : ~nblobs'[f]) =>
                  /\ tres'.err = Nil
                  /\ \A m \in sub : nodes'[m] = NoDoc /\ ~nblobs'[m]
           /\ \A m \in TreeIDs \ sub : nodes'[m] = nodes[m] /\ nblobs'[m] = nblobs[m]

\* no blob of the tree is without its document
BlobsHaveDocs == \A m \in TreeIDs : nblobs[m] => InTree(nodes, m)

\* C14: in a purge of a trashed subtree a file whose blob deletion fails
\* keeps its metadata document, and a purge repeated after that removes
\* every blob and every document of the subtree when the blob deletions
\* succeed
C14_PurgeKeepsDocOfFailedBlob == []BlobsHaveDocs /\ [][PurgeSteps]_vars

\* the purge of /a failed on a blob and kept the documents; repeated, it
\* removed the subtree
C14_Witness ==
    /\ tres.op = "purge"
    /\ tres.id = "d1"
    /\ tres.retry
    /\ tres.err = Nil
    /\ \A m \in {"d1", "d2", "f1", "f2"} : nodes[m] = NoDoc /\ ~nblobs[m]

\* a step of a request under a tenant: the documents of every other tenant
\* are as before, and the response is what the tenant's own documents give
TenantSteps ==
        LET t == tresp'.tenant
            id == tresp'.id
        IN /\ \A u \in Tenants \ {t} : tstore'[u] = tstore[u]
           /\ tresp'.op \in {"overwrite", "trash", "read"} =>
                  IF tstore[t][id] = NoDoc
                  THEN /\ tresp'.ret = JSONAPIError("NotFound", "", ErrNotExist)
                       /\ tresp'.body = <<>>
                       /\ tstore' = tstore
                  ELSE tresp'.op = "read" =>
                           tresp'.body = <<tstore[t][id].content>>
           /\ tresp'.op = "create" =>
                  (tresp'.ret.name = "Conflict") =
                      (\E d \in TenantDocIDs :
                           /\ tstore[t][d] # NoDoc
                           /\ ~tstore[t][d].trashed
                           /\ tstore[t][d].name = tresp'.name)

\* C15: no request under tenant A's context reads, modifies, trashes or
\* collides by name with a document of tenant B, even when it carries the
\* identifier of one of B's documents
C15_TenantsIsolated == [][TenantSteps]_vars

\* bob asked for an identifier that only alice has, and was told not found
\* while alice's document is there, changed by none of bob's requests
C15_Witness ==
    /\ tresp.tenant = "bob"
    /\ tresp.op \in {"overwrite", "trash", "read"}
    /\ tresp.id = "t2"
    /\ tresp.ret.name = "NotFound"
    /\ tstore["alice"]["t2"] # NoDoc
    /\ tstore["bob"]["t2"] = NoDoc

GotOwnEntry ==
    /\ \/ dresp.op = "GetFile" /\ dstore[dresp.key].kind = "file"
       \/ dresp.op = "GetArchive" /\ dstore[dresp.key].kind = "archive"
    /\ dstore[dresp.key].domain = dresp.domain
    /\ dresp.at >= dstore[dresp.key].at

UncheckedGoesOn ==
    \A r \in Reqs :
        (/\ req[r].pc = "check"
         /\ req'[r] # req[r]
         /\ req'[r].wantedRev = "") =>
            /\ req[r].kind \in {"overwrite", "patch"}
            /\ req'[r].pc = IF req[r].kind = "overwrite" THEN "open" ELSE "modify"
            /\ req'[r].ret = Nil

\* a request that gave no revision has not been answered PreconditionFailed
\* for the revision
UncheckedNotRejected ==
    \A r \in Reqs :
        req[r].wantedRev = "" =>
            ~(req[r].ret.name = "PreconditionFailed" /\ req[r].ret.src = "If-Match")

\* C18: an overwrite or a patch whose expected revision is empty or absent
\* is never rejected by the revision precondition
C18_NoRevisionNoPrecondition == []UncheckedNotRejected /\ [][UncheckedGoesOn]_vars

\* an overwrite and a patch that gave no revision went through
C18_Witness ==
    \E r, q \in Reqs :
        /\ req[r].kind = "overwrite" /\ req[q].kind = "patch"
        /\ req[r].wantedRev = "" /\ req[q].wantedRev = ""
        /\ req[r].pc = "done" /\ req[q].pc = "done"
        /\ req[r].ret = Nil /\ req[q].ret = Nil
        /\ req[r].committed /\ req[q].committed

\* the step in which an overwrite ends with success: the document has
\* another revision token than the one loaded, and the blob of the loaded
\* document is gone and bound to no document
OverwriteSupersedes ==
    \A r \in Reqs :
        (/\ req[r].kind = "overwrite"
         /\ req[r].pc # "done"
         /\ req'[r].pc = "done"
         /\ req'[r].ret = Nil) =>
            /\ req'[r].committed
            /\ docs'[req[r].id] # NoDoc
            /\ Rev(docs'[req[r].id]) # Rev(req[r].olddoc)
            /\ blobs'[req[r].olddoc.blob] = NoBlob
            /\ \A d \in DocIDs :
                  docs'[d] # NoDoc => docs'[d].blob # req[r].olddoc.blob

\* the step in which an overwrite writes the document: its revision changes
OverwriteChangesRev ==
    \A r \in Reqs :
        (/\ req[r].kind = "overwrite"
         /\ ~req[r].committed
         /\ req'[r].committed) =>
            /\ Rev(docs'[req[r].id]) # Rev(docs[req[r].id])
            /\ docs'[req[r].id].blob = req[r].file
            /\ docs'[req[r].id].blob # req[r].olddoc.blob

\* C19: after every successful overwrite the revision token of the file
\* differs from the one before it, and the superseded blob is referenced by
\* no document
C19_OverwriteChangesRevAndDropsBlob ==
    [][OverwriteSupersedes /\ OverwriteChangesRev]_vars

\* an overwrite has succeeded: the stored file has the new blob and the next
\* revision, and the old blob is gone
C19_Witness ==
    \E r \in Reqs :
        /\ req[r].kind = "overwrite" /\ req[r].pc = "done" /\ req[r].ret = Nil
        /\ req[r].committed
        /\ req[r].olddoc = InitDocs[DocID(1)]
        /\ docs[DocID(1)].blob = req[r].file
        /\ docs[DocID(1)].rev = req[r].olddoc.rev + 1
        /\ blobs[req[r].olddoc.blob] = NoBlob
        /\ Len(blobs[req[r].file].data) = MaxLen

\* the bytes are the whole content the document describes
ContentOf(data, doc) ==
    /\ doc # NoDoc
    /\ Len(data) = doc.size
    /\ <<MD5Sum(data)>> = doc.md5sum

\* C20: a read of a file interleaved with an overwrite of it returns either
\* the complete old content or the complete new content, never partially
\* written bytes
C20_ReadOldOrNew ==
    \A r \in Reqs :
        (/\ req[r].kind = "read"
         /\ req[r].pc = "done"
         /\ req[r].olddoc # NoDoc) =>
            /\ req[r].ret = Nil
            /\ \/ ContentOf(req[r].body, req[r].olddoc)
               \/ ContentOf(req[r].body, docs[req[r].id])

\* the root and the trash root are there, outside the trash, under the
\* parent they had
AnchorsInPlace ==
    \A a \in AnchorIDs :
        /\ anchors[a] # NoDoc
        /\ ~anchors[a].trashed
        /\ anchors[a].dir_id = InitAnchors[a].dir_id

\* a request on the root or the trash root leaves both as they were
AnchorSteps ==
    tres'.id \in AnchorIDs /\ tres'.n # tres.n => anchors' = anchors

Prefixes(path) == {SubSeq(path, 1, k) : k \in 1..Len(path)}

\* the step of a creation by path: a recursive one that succeeds leaves a
\* directory at every prefix and the documents there were as they were; a
\* non-recursive one whose parent is missing fails and changes nothing
MkdirSteps ==
    /\ (tres'.n # tres.n /\ tres'.op = "mkdirall" /\ tres'.err = Nil) =>
          /\ \A pre \in Prefixes(tres'.path) :
                LET m == Resolve(nodes', RootDirID, pre)
                IN m # "" /\ IsDir(nodes', m) /\ nodes'[m].path = pre
          /\ \A m \in TreeIDs : InTree(nodes, m) => nodes'[m] = nodes[m]
    /\ (/\ tres'.n # tres.n /\ tres'.op = "mkdir"
        /\ LET parent == Resolve(nodes, RootDirID,
                                 SubSeq(tres'.path, 1, Len(tres'.path) - 1))
           IN parent = "" \/ ~IsDir(nodes, parent)) =>
          /\ tres'.err # Nil
          /\ tres'.ret # Nil
          /\ nodes' = nodes

\* C22: a successful recursive directory creation for a path leaves every
\* prefix of the path resolving to a directory and the ancestors that
\* existed unchanged; a non-recursive creation by path whose parent is
\* missing creates nothing and fails
C22_MkdirAllMakesPrefixes == [][MkdirSteps]_vars

\* a recursive creation of /a/b/a has kept /a and inserted the two
\* directories below it
C22_Witness ==
    /\ tres.op = "mkdirall"
    /\ tres.err = Nil
    /\ tres.path = <<"a", "b", "a">>
    /\ nodes["d1"] = MkdirNodes["d1"]
    /\ Cardinality(FreeTreeIDs(nodes)) = Cardinality(FreeTreeIDs(MkdirNodes)) - 2
    /\ Resolve(nodes, RootDirID, <<"a", "b", "a">>) = tres.id

\* the Content-Length header is that of a negative number
NegativeLength(contentLength) ==
    /\ contentLength # <<>>
    /\ ParseInt(contentLength).ok
    /\ ParseInt(contentLength).val < 0

\* C23: the declared byte length handed to the engine by the upload handlers
\* is -1 exactly when the Content-Length header is absent and a non-negative
\* integer in every other accepted request; a negative Content-Length header
\* is rejected as an invalid parameter
C23_LengthUnknownIffAbsent ==
    call.fn = "fileDocFromReq" =>
        /\ call.out.err = Nil =>
              /\ call.out.doc.size = -1 <=> call.contentLength = <<>>
              /\ call.contentLength # <<>> => call.out.doc.size >= 0
        /\ NegativeLength(call.contentLength) =>
              /\ call.out.err.name = "InvalidParameter"
              /\ call.out.err.src = "Content-Length"

\* C24: when an If-Match header and a rev query parameter are both present
\* and non-empty, only the If-Match value is compared with the stored
\* revision; the rev query parameter is used only when If-Match is empty
C24_IfMatchBeforeRev ==
    call.fn = "checkIfMatch" =>
        /\ call.ifMatch # "" => (call.out = Nil <=> call.rev = call.ifMatch)
        /\ (call.ifMatch = "" /\ call.revQuery # "") =>
              (call.out = Nil <=> call.rev = call.revQuery)

\* the header matched the revision, the rev parameter did not, and the
\* check passed
C24_Witness ==
    /\ call.fn = "checkIfMatch"
    /\ call.ifMatch # "" /\ call.revQuery # ""
    /\ call.ifMatch = call.rev
    /\ call.revQuery # call.rev
    /\ call.out = Nil

\* C25: wrapVfsError maps every error kind of the taxonomy to a structured
\* error other than the internal server error, and applying it to its own
\* result returns that result unchanged
C25_WrapTypedAndIdempotent ==
    call.fn = "wrapVfsError" =>
        /\ call.err \in TaxonomyErrors =>
              /\ call.out.cls = "jsonapi"
              /\ call.out.name # "InternalServerError"
        /\ call.again = call.out

\* the not-found error of the engine was wrapped, and wrapped again
C25_Witness ==
    /\ call.fn = "wrapVfsError"
    /\ call.err = ErrNotExist
    /\ call.out = JSONAPIError("NotFound", "", ErrNotExist)
    /\ call.again = call.out

\* the step in which an upload handler returns after the engine gave it a
\* file: the error it returns is that of the copy if there is one, and
\* that of Close otherwise
CloseSteps ==
    \A r \in Reqs :
        (/\ req[r].kind \in Uploads
         /\ req[r].pc \in {"close", "commit", "cleanup"}
         /\ req'[r].pc = "done") =>
            /\ req'[r].closes = 1
            /\ req'[r].err = IF req[r].err # Nil THEN req[r].err ELSE req'[r].cerr

\* Close has been called once on the file of an upload that is over, and
\* not at all while the body is copied or when no file was opened
ClosedOnce ==
    \A r \in Reqs :
        req[r].kind \in Uploads =>
            /\ req[r].pc \in {"prepare", "load", "check", "open", "copy", "close"} =>
                  req[r].closes = 0
            /\ req[r].pc \in {"commit", "cleanup"} => req[r].closes = 1
            /\ req[r].pc = "done" =>
                  req[r].closes = IF req[r].file # "" THEN 1 ELSE 0

OtherType(rq) == rq.kind = "create" /\ rq.doctype \notin {FileType, DirType}

\* such a creation is over at once with the error on the attribute type,
\* holds no document and no blob and has written nothing
OtherTypeRefused ==
    \A r \in Reqs :
        OtherType(req[r]) =>
            /\ req[r].pc = "done"
            /\ req[r].err = ErrDocTypeInvalid
            /\ req[r].ret = JSONAPIError("InvalidAttribute", "type", ErrDocTypeInvalid)
            /\ req[r].id = "" /\ req[r].file = ""
            /\ req[r].writes = 0 /\ ~req[r].committed

\* the step of such a creation leaves the documents and the blobs alone
OtherTypeSteps ==
    \A r \in Reqs :
        (OtherType(req'[r]) /\ req'[r] # req[r]) => docs' = docs /\ blobs' = blobs

\* C27: a creation request whose Type parameter is neither the file type nor
\* the directory type fails with the invalid-document-type error mapped to
\* the attribute "type", and creates no document and opens no blob
C27_UnknownTypeRefused == []OtherTypeRefused /\ [][OtherTypeSteps]_vars

\* after a file was created, a creation of another type was refused
C27_Witness ==
    \E r \in Reqs :
        /\ OtherType(req[r])
        /\ req[r].doctype = "symlink"
        /\ req[r].name = "b"
        /\ req[r].ret.src = "type"
        /\ \E d \in DocIDs \ {DocID(1)} : docs[d] # NoDoc /\ docs[d].type = "file"

\* C28: for any error, ErrorHandler writes exactly one response when the
\* response is not yet committed and none when it is; for a HEAD request
\* the response it writes carries the error status and no body
C28_OneErrorResponse ==
    call.fn = "ErrorHandler" =>
        /\ call.committed => call.out = <<>>
        /\ ~call.committed => Len(call.out) = 1
        /\ (~call.committed /\ call.method = "HEAD") =>
              /\ ~call.out[1].body
              /\ call.out[1].via = "NoContent"
              /\ call.out[1].status >= 400
              /\ call.out[1].status =
                    IF JsonapiStatus(call.err) # 0 THEN JsonapiStatus(call.err)
                    ELSE IF call.err.inner = "instance.ErrNotFound" THEN 404
                    ELSE call.err.status

\* a HEAD request that did not find its instance got the status alone
C28_Witness ==
    /\ call.fn = "ErrorHandler"
    /\ call.method = "HEAD"
    /\ ~call.committed
    /\ call.err.inner = "instance.ErrNotFound"
    /\ call.out = <<Response("NoContent", 404, FALSE)>>

\* the directives of a configuration: their source list and whitelist
CSPDirectives(conf) ==
    <<[sources |-> conf.CSPDefaultSrc, whitelist |-> conf.CSPDefaultSrcWhitelist],
      [sources |-> conf.CSPScriptSrc, whitelist |-> conf.CSPScriptSrcWhitelist]>>

HasSource(sources, src) == \E i \in 1..Len(sources) : sources[i] = src

\* C29: once Secure has normalized the configuration, every directive whose
\* source list holds the whitelist marker, its own or the one of default-src,
\* has a non-empty whitelist, and no directive of a response holds an empty
\* source token
C29_MarkerHasWhitelist ==
    /\ csp.pc \in {"ready", "served"} =>
          \A d \in 1..2 :
              HasSource(CSPDirectives(csp.conf)[d].sources, CSPWhitelist) =>
                  CSPDirectives(csp.conf)[d].whitelist # <<>>
    /\ csp.pc = "served" =>
          \A d \in 1..Len(csp.headers.csp) :
              \A i \in 1..Len(csp.headers.csp[d].tokens) :
                  csp.headers.csp[d].tokens[i] # <<>>

\* the two calls of validCSPList that Secure made: what each was given and
\* what it returned
ValidCSPListCalls ==
    <<[sources |-> csp.given.CSPDefaultSrc,
       defaults |-> csp.given.CSPDefaultSrc,
       whitelist |-> csp.given.CSPDefaultSrcWhitelist,
       outSources |-> csp.conf.CSPDefaultSrc,
       outWhitelist |-> csp.conf.CSPDefaultSrcWhitelist],
      [sources |-> csp.given.CSPScriptSrc,
       defaults |-> csp.conf.CSPDefaultSrc,
       whitelist |-> csp.given.CSPScriptSrcWhitelist,
       outSources |-> csp.conf.CSPScriptSrc,
       outWhitelist |-> csp.conf.CSPScriptSrcWhitelist]>>

\* a field of the whitelist is a URL
HasValidEntry(whitelist) == \E i \in 1..Len(whitelist) : urlParse(whitelist[i]).ok

\* what the directive lists: its sources, the marker of its whitelist, the
\* default sources
Listed(c) ==
    c.sources \o (IF HasValidEntry(c.whitelist) THEN <<CSPWhitelist>> ELSE <<>>)
        \o c.defaults

FirstAt(list, src) == CHOOSE i \in 1..Len(list) :
                          list[i] = src /\ \A j \in 1..(i - 1) : list[j] # src

\* the list returned has no duplicate, holds what the directive lists and
\* nothing else, in the order of the first occurrences
UniqueInOrder(c) ==
    /\ \A i, j \in 1..Len(c.outSources) :
          i < j => /\ c.outSources[i] # c.outSources[j]
                   /\ FirstAt(Listed(c), c.outSources[i])
                          < FirstAt(Listed(c), c.outSources[j])
    /\ \A i \in 1..Len(c.outSources) : HasSource(Listed(c), c.outSources[i])
    /\ \A i \in 1..Len(c.sources) : HasSource(c.outSources, c.sources[i])
    /\ \A i \in 1..Len(c.defaults) : HasSource(c.outSources, c.defaults[i])

\* the directive has no source and no valid whitelist entry
Unconfigured(c) == c.sources = <<>> /\ ~HasValidEntry(c.whitelist)

ReturnsEmpty(c) == c.outSources = <<>> /\ c.outWhitelist = <<>>

\* C30 as stated: validCSPList returns a list without duplicates, in the
\* order of the first occurrences, that holds every source of the directive
\* and every default source, and returns the empty list with an empty
\* whitelist exactly when the directive has no source and no valid
\* whitelist entry
C30_UniqueWithDefaults ==
    csp.pc \in {"ready", "served"} =>
        \A k \in 1..2 :
            /\ UniqueInOrder(ValidCSPListCalls[k])
            /\ ReturnsEmpty(ValidCSPListCalls[k]) <=> Unconfigured(ValidCSPListCalls[k])

\* C30, amended: for a directive with a source or a valid whitelist entry
\* validCSPList returns a list without duplicates, in the order of the first
\* occurrences, that holds every source of the directive, the marker of a
\* valid whitelist and every default source; for a directive with neither
\* it returns the empty list and an empty whitelist, whatever the default
\* sources are, and it returns them for no other directive
C30_UniqueWithDefaultsWhenConfigured ==
    csp.pc \in {"ready", "served"} =>
        \A k \in 1..2 :
            /\ ~Unconfigured(ValidCSPListCalls[k]) =>
                  /\ UniqueInOrder(ValidCSPListCalls[k])
                  /\ ~ReturnsEmpty(ValidCSPListCalls[k])
            /\ Unconfigured(ValidCSPListCalls[k]) => ReturnsEmpty(ValidCSPListCalls[k])

\* script-src repeated a source and had a whitelist, as default-src had: the
\* source and the marker are listed once, before the default source
C30_Witness ==
    /\ csp.pc = "ready"
    /\ csp.given.CSPScriptSrc = <<CSPSrcSelf, CSPSrcSelf>>
    /\ csp.given.CSPDefaultSrc = <<CSPSrcParent>>
    /\ csp.conf.CSPDefaultSrc = <<CSPSrcParent, CSPWhitelist>>
    /\ csp.conf.CSPScriptSrc = <<CSPSrcSelf, CSPWhitelist, CSPSrcParent>>
    /\ csp.conf.CSPScriptSrcWhitelist # <<>>

=============================================================================
